---- MODULE Spec2Model ----
(***************************************************************************)
(* Model of the fertigation calculator (muammarhafiz/fertilizer-app).      *)
(*                                                                         *)
(* The repository holds several variants of the mixing screen.  Each       *)
(* variant is a React component whose state is a handful of useState       *)
(* cells and whose outputs (results, ecEstimate, totals) are useMemo       *)
(* values recomputed from that state.  The model follows one mounted       *)
(* component at a time (variable `screen`):                                *)
(*   "direct"  src/MixDirectScreen.js                                      *)
(*   "stock"   src/MixStockScreen.js                                       *)
(*   "alt"     src/unnamed/part_001   (direct mix with switchUnit)         *)
(*   "legacy"  src/FertilizerDetailScreen.js:912-1330 (AsyncStorage)       *)
(*                                                                         *)
(* JavaScript numbers are modelled as exact rationals <<n, d>> with d > 0, *)
(* extended with the three IEEE specials NaN = <<0,0>>, +Infinity =        *)
(* <<1,0>>, -Infinity = <<-1,0>>.  Rounding of binary floating point is    *)
(* not modelled: arithmetic on finite values is exact.                     *)
(***************************************************************************)
EXTENDS Integers, Sequences, FiniteSets, TLC

(***************************************************************************)
(* Bounds of the model.                                                    *)
(***************************************************************************)
MaxRows == 2

(***************************************************************************)
(* JavaScript numbers.                                                     *)
(***************************************************************************)
Abs(n) == IF n < 0 THEN -n ELSE n

Sgn(n) == IF n > 0 THEN 1 ELSE IF n < 0 THEN -1 ELSE 0

RECURSIVE GCD(_, _)
GCD(a, b) == IF b = 0 THEN a ELSE GCD(b, a % b)

\* the reduced fraction n/d, for d # 0
Norm(n, d) ==
  LET g == GCD(Abs(n), Abs(d))
      s == IF d < 0 THEN -1 ELSE 1
  IN  <<(s * n) \div g, (s * d) \div g>>

NaN == <<0, 0>>

PosInf == <<1, 0>>

NegInf == <<-1, 0>>

Zero == <<0, 1>>

One == <<1, 1>>

Int2Num(n) == <<n, 1>>

IsNaN(x) == x = NaN

\* Number.isFinite
NumberIsFinite(x) == x[2] # 0

\* x + y
Add(x, y) ==
  IF IsNaN(x) \/ IsNaN(y) THEN NaN
  ELSE IF ~NumberIsFinite(x) /\ ~NumberIsFinite(y)
       THEN (IF x = y THEN x ELSE NaN)
  ELSE IF ~NumberIsFinite(x) THEN x
  ELSE IF ~NumberIsFinite(y) THEN y
  ELSE LET g == GCD(x[2], y[2])
       IN  Norm(x[1] * (y[2] \div g) + y[1] * (x[2] \div g), (x[2] \div g) * y[2])

\* x * y
Mul(x, y) ==
  IF IsNaN(x) \/ IsNaN(y) THEN NaN
  ELSE IF ~NumberIsFinite(x) \/ ~NumberIsFinite(y)
       THEN <<Sgn(x[1]) * Sgn(y[1]), 0>>
  ELSE LET g1 == GCD(Abs(x[1]), y[2])
           g2 == GCD(Abs(y[1]), x[2])
       IN  Norm((x[1] \div g1) * (y[1] \div g2), (x[2] \div g2) * (y[2] \div g1))

\* x / y  (the sign of a zero divisor is not tracked: 0 is +0)
Div(x, y) ==
  IF IsNaN(x) \/ IsNaN(y) THEN NaN
  ELSE IF ~NumberIsFinite(y)
       THEN (IF NumberIsFinite(x) THEN Zero ELSE NaN)
  ELSE IF ~NumberIsFinite(x)
       THEN <<x[1] * (IF y[1] < 0 THEN -1 ELSE 1), 0>>
  ELSE IF y[1] = 0 THEN <<Sgn(x[1]), 0>>
  ELSE Mul(x, Norm(y[2], y[1]))

\* x < y  (false when either side is NaN)
Lt(x, y) ==
  /\ ~IsNaN(x) /\ ~IsNaN(y)
  /\ x # y
  /\ IF ~NumberIsFinite(x) THEN x = NegInf
     ELSE IF ~NumberIsFinite(y) THEN y = PosInf
     ELSE x[1] * y[2] < y[1] * x[2]

\* x > y
Gt(x, y) == Lt(y, x)

\* Math.max(x, y)
MathMax(x, y) ==
  IF IsNaN(x) \/ IsNaN(y) THEN NaN ELSE IF Lt(x, y) THEN y ELSE x

\* truthiness of a number: neither 0 nor NaN
Truthy(x) == ~IsNaN(x) /\ x # Zero

\* a || b on numbers
OrElse(a, b) == IF Truthy(a) THEN a ELSE b

(***************************************************************************)
(* Text of an input field.  A text is "" (empty), a decimal numeral        *)
(* m * 10^-e written out ("500", "0.5", "-5"), the word "Infinity", or     *)
(* any other, non-numeric text ("abc").                                    *)
(***************************************************************************)
TxtEmpty == [k |-> "empty", m |-> 0, e |-> 0]

TxtJunk == [k |-> "junk", m |-> 0, e |-> 0]

TxtInfinity == [k |-> "inf", m |-> 0, e |-> 0]

\* the numeral of m * 10^-e
Dec(m, e) == [k |-> "dec", m |-> m, e |-> e]

RECURSIVE Pow10(_)
Pow10(e) == IF e = 0 THEN 1 ELSE 10 * Pow10(e - 1)

\* Number(s) for a text s: "" is 0, a numeral is its value, "Infinity" is
\* Infinity, anything else is NaN
NumberOfText(s) ==
  CASE s.k = "empty" -> Zero
    [] s.k = "dec"   -> Norm(s.m, Pow10(s.e))
    [] s.k = "inf"   -> PosInf
    [] OTHER         -> NaN

\* the number of decimal places String(x) writes for a finite x whose
\* denominator d divides a power of ten
RECURSIVE DecPlaces(_, _)
DecPlaces(d, e) ==
  IF Pow10(e) % d = 0 \/ e >= 9 THEN e ELSE DecPlaces(d, e + 1)

\* String(x) for a number x
StringOfNumber(x) ==
  IF IsNaN(x) THEN TxtJunk
  ELSE IF x = PosInf THEN TxtInfinity
  ELSE IF x = NegInf THEN TxtJunk
  ELSE LET e == DecPlaces(x[2], 0)
       IN  Dec((x[1] * Pow10(e)) \div x[2], e)

(***************************************************************************)
(* Names are sequences of characters, so that toLowerCase and the regular  *)
(* expression tests are computed on the characters.                        *)
(***************************************************************************)
ToLowerChar(c) ==
  CASE c = "A" -> "a" [] c = "B" -> "b" [] c = "C" -> "c" [] c = "D" -> "d"
    [] c = "E" -> "e" [] c = "F" -> "f" [] c = "G" -> "g" [] c = "H" -> "h"
    [] c = "I" -> "i" [] c = "J" -> "j" [] c = "K" -> "k" [] c = "L" -> "l"
    [] c = "M" -> "m" [] c = "N" -> "n" [] c = "O" -> "o" [] c = "P" -> "p"
    [] c = "Q" -> "q" [] c = "R" -> "r" [] c = "S" -> "s" [] c = "T" -> "t"
    [] c = "U" -> "u" [] c = "V" -> "v" [] c = "W" -> "w" [] c = "X" -> "x"
    [] c = "Y" -> "y" [] c = "Z" -> "z"
    [] OTHER -> c

\* String.prototype.toLowerCase
ToLowerCase(s) == [i \in 1..Len(s) |-> ToLowerChar(s[i])]

\* p occurs in s as a substring
Contains(s, p) ==
  \E i \in 1..(Len(s) - Len(p) + 1) : SubSeq(s, i, i + Len(p) - 1) = p

\* /p1|p2|.../.test(s) for a set of literal alternatives
TestAny(pats, s) == \E p \in pats : Contains(s, p)

\* /p/i.test(s) for a literal p
TestIgnoreCase(p, s) == Contains(ToLowerCase(s), ToLowerCase(p))

EmptyName == <<>>

Pat_MgO == <<"M", "g", "O">>

Pat1 == {<<"c", "a", "l", "c", "i", "n", "i", "t">>,
         <<"c", "a", "l", "c", "i", "u", "m", " ", "n", "i", "t", "r", "a", "t", "e">>,
         <<"n", "i", "t", "r", "a", "b", "o", "r">>}

Pat2 == {<<"k", "r", "i", "s", "t", "a", " ", "k">>,
         <<"p", "o", "t", "a", "s", "s", "i", "u", "m", " ", "n", "i", "t", "r", "a", "t", "e">>,
         <<"k", "n", "o", "3">>}

Pat3 == {<<"m", "k", "p">>,
         <<"m", "o", "n", "o", " ", "p", "o", "t", "a", "s", "s", "i", "u", "m", " ", "p", "h", "o", "s", "p", "h", "a", "t", "e">>,
         <<"k", "h", "2", "p", "o", "4">>}

Pat4 == {<<"s", "o", "p">>,
         <<"p", "o", "t", "a", "s", "s", "i", "u", "m", " ", "s", "u", "l", "p", "h">>,
         <<"p", "o", "t", "a", "s", "s", "i", "u", "m", " ", "s", "u", "l", "f">>}

Pat5 == {<<"m", "a", "g", "n", "e", "s", "i", "u", "m">>,
         <<"e", "p", "s", "o", "m">>,
         <<"k", "r", "i", "s", "t", "a", " ", "m", "g", "s">>,
         <<"m", "g", "s", "o", "4">>}

Pat6 == {<<"f", "e", "r", "t", "i", "c", "a", "r", "e">>,
         <<"k", "r", "i", "s", "t", "a", "l", "o", "n">>,
         <<"n", "p", "k">>,
         <<"c", "o", "m", "p", "l", "e", "t", "e">>}

\* the EC coefficients, as numbers
K120 == <<6, 5>>

K110 == <<11, 10>>

K090 == <<9, 10>>

K080 == <<4, 5>>

K100 == <<1, 1>>

\* inferECk testing the blends group before the magnesium group
inferECk_blendsFirst(name) ==
  LET n == ToLowerCase(name)
  IN  IF TestAny(Pat1, n) THEN K120
      ELSE IF TestAny(Pat2, n) THEN K110
      ELSE IF TestAny(Pat3, n) THEN K090
      ELSE IF TestAny(Pat4, n) THEN K080
      ELSE IF TestAny(Pat6, n) THEN K110
      ELSE IF TestAny(Pat5, n) THEN K100
      ELSE K100

\* inferECk of MixDirectScreen.js (mS/cm from 1 g/L of the salt)
inferECk(name) ==
  LET n == ToLowerCase(name)
  IN  IF TestAny(Pat1, n) THEN K120
      ELSE IF TestAny(Pat2, n) THEN K110
      ELSE IF TestAny(Pat3, n) THEN K090
      ELSE IF TestAny(Pat4, n) THEN K080
      ELSE IF TestAny(Pat5, n) THEN K100
      ELSE IF TestAny(Pat6, n) THEN K110
      ELSE K100

\* inferECk of MixStockScreen.js
Stock_inferECk(name) ==
  LET n == ToLowerCase(name)
  IN  IF TestAny(Pat1, n) THEN K120
      ELSE IF TestAny(Pat2, n) THEN K110
      ELSE IF TestAny(Pat3, n) THEN K090
      ELSE IF TestAny(Pat4, n) THEN K080
      ELSE IF TestAny(Pat5, n) THEN K100
      ELSE IF TestAny(Pat6, n) THEN K110
      ELSE K100

\* ecK without toLowerCase
ecK_caseSensitive(name) ==
  LET n == name
  IN  IF TestAny(Pat1, n) THEN K120
      ELSE IF TestAny(Pat2, n) THEN K110
      ELSE IF TestAny(Pat3, n) THEN K090
      ELSE IF TestAny(Pat4, n) THEN K080
      ELSE IF TestAny(Pat5, n) THEN K100
      ELSE IF TestAny(Pat6, n) THEN K110
      ELSE K100

\* ecK of unnamed/part_001
ecK(name) ==
  LET n == ToLowerCase(name)
  IN  IF TestAny(Pat1, n) THEN K120
      ELSE IF TestAny(Pat2, n) THEN K110
      ELSE IF TestAny(Pat3, n) THEN K090
      ELSE IF TestAny(Pat4, n) THEN K080
      ELSE IF TestAny(Pat5, n) THEN K100
      ELSE IF TestAny(Pat6, n) THEN K110
      ELSE K100

\* inferECk of unnamed/part_002
Part2_inferECk(name) ==
  LET n == ToLowerCase(name)
  IN  IF TestAny(Pat1, n) THEN K120
      ELSE IF TestAny(Pat2, n) THEN K110
      ELSE IF TestAny(Pat3, n) THEN K090
      ELSE IF TestAny(Pat4, n) THEN K080
      ELSE IF TestAny(Pat5, n) THEN K100
      ELSE IF TestAny(Pat6, n) THEN K110
      ELSE K100

\* MgO_TO_Mg = 0.603 (24.305 / 40.304)
MgO_TO_Mg == <<603, 1000>>

(***************************************************************************)
(* Values read from the database: a JSON value is null, missing            *)
(* (undefined), the empty string, or a number.  An object of nutrient      *)
(* percents (npk, micro) is null or maps each key to such a value.         *)
(***************************************************************************)
JNull == [t |-> "null", v |-> Zero]

JUndef == [t |-> "undef", v |-> Zero]

JEmpty == [t |-> "empty", v |-> Zero]

JNum(n, d) == [t |-> "num", v |-> Norm(n, d)]

\* Number(v) for a JSON value
NumberOfJson(v) ==
  CASE v.t = "num"   -> v.v
    [] v.t = "undef" -> NaN
    [] OTHER         -> Zero

MACROS == <<"N", "P2O5", "K2O", "Ca", "Mg", "S">>

MICROS == <<"Fe", "Mn", "Zn", "Cu", "B", "Mo">>

MacroKeys == {MACROS[i] : i \in 1..Len(MACROS)}

MicroKeys == {MICROS[i] : i \in 1..Len(MICROS)}

Nutrients == MacroKeys \cup MicroKeys

NullObject == [isNull |-> TRUE, get |-> [k \in Nutrients |-> JUndef]]

Object(f) == [isNull |-> FALSE, get |-> f]

\* (obj || {})[key]
Field(obj, key) == IF obj.isNull THEN JUndef ELSE obj.get[key]

\* a fertilizer row never selected has fertId null
NullId == 0

(***************************************************************************)
(* The "fertilizers" table, as the select ... order("name") returns it.    *)
(***************************************************************************)
Name_CalciumNitrate == <<"C", "a", "l", "c", "i", "u", "m", " ", "N", "i", "t", "r", "a", "t", "e">>

Name_CompleteMGO == <<"C", "o", "m", "p", "l", "e", "t", "e", " ", "M", "G", "O", " ", "M", "i", "x">>

Name_KristaMgS == <<"K", "r", "i", "s", "t", "a", " ", "M", "g", "S">>

Fert_CalciumNitrate ==
  [id |-> 1, name |-> Name_CalciumNitrate,
   bag_size_kg |-> JNum(25, 1), price_per_bag |-> JNum(50, 1),
   npk |-> Object([k \in Nutrients |->
              CASE k = "N"  -> JNum(15, 1)
                [] k = "Ca" -> JNum(19, 1)
                [] k = "S"  -> JEmpty
                [] k \in {"P2O5", "K2O", "Mg"} -> JNull
                [] OTHER -> JUndef]),
   micro |-> NullObject]

Fert_CompleteMGO ==
  [id |-> 2, name |-> Name_CompleteMGO,
   bag_size_kg |-> JNum(25, 1), price_per_bag |-> JNum(90, 1),
   npk |-> Object([k \in Nutrients |->
              CASE k = "N"    -> JNum(18, 1)
                [] k = "P2O5" -> JNum(9, 1)
                [] k = "K2O"  -> JNum(27, 1)
                [] k = "Ca"   -> JNull
                [] k = "Mg"   -> JNum(3, 1)
                [] k = "S"    -> JNum(2, 1)
                [] OTHER -> JUndef]),
   micro |-> Object([k \in Nutrients |->
              CASE k = "Fe" -> JNum(1, 10)
                [] k = "Mn" -> JNum(1, 20)
                [] k = "Zn" -> JNum(1, 40)
                [] k = "Cu" -> JNum(1, 100)
                [] k = "B"  -> JNum(3, 100)
                [] k = "Mo" -> JNum(1, 250)
                [] OTHER -> JUndef])]

Fert_KristaMgS ==
  [id |-> 3, name |-> Name_KristaMgS,
   bag_size_kg |-> JNum(25, 1), price_per_bag |-> JNull,
   npk |-> Object([k \in Nutrients |->
              CASE k = "Mg" -> JNum(10, 1)
                [] k = "S"  -> JNum(13, 1)
                [] OTHER -> JUndef]),
   micro |-> Object([k \in Nutrients |-> IF k \in MicroKeys THEN JNull ELSE JUndef])]

FertTable == <<Fert_CalciumNitrate, Fert_CompleteMGO, Fert_KristaMgS>>

Ten == <<10, 1>>

Thousand == <<1000, 1>>

ZeroPpm == [k \in Nutrients |-> Zero]

\* a row as addRow creates it
BlankRow == [fertId |-> NullId, name |-> EmptyName, gTotal |-> TxtEmpty, gPerL |-> TxtEmpty]

(***************************************************************************)
(* Texts typed into the fields.                                            *)
(***************************************************************************)
\* "500"
TotalTexts == {Dec(500, 0)}

\* "5"
PerLTexts == {Dec(5, 0)}

\* "100", "0", "-2"
VolumeTexts == {Dec(100, 0), Dec(0, 0), Dec(-2, 0)}

\* "1.10", "2", ""
EcScaleTexts == {Dec(110, 2), Dec(2, 0), TxtEmpty}

(***************************************************************************)
(* State.                                                                  *)
(***************************************************************************)
VARIABLES
  screen,         \* the mounted component
  d_weightUnit,   \* MixDirectScreen.js: weightUnit
  d_volumeL,      \* volumeL
  d_doseMode,     \* doseMode
  d_ingredients,  \* ingredients
  d_ecScale,      \* ecScale
  d_ferts,        \* ferts
  s_stockVolumeL, \* MixStockScreen.js: stockVolumeL
  s_ratio,        \* ratio
  s_weightUnit,   \* weightUnit
  s_ecScale,      \* ecScale
  s_rows,         \* rows
  s_ferts,        \* ferts
  a_volumeL,      \* unnamed/part_001: volumeL
  a_doseMode,     \* doseMode
  a_weightUnit,   \* weightUnit
  a_ecScale,      \* ecScale
  a_rows,         \* rows
  a_ferts,        \* ferts
  l_allFerts,     \* FertilizerDetailScreen.js (AsyncStorage mixer): allFerts
  l_volumeL,      \* volumeL
  l_doseMode,     \* doseMode
  l_rows,         \* rows
  d_batchId,      \* MixDirectScreen.js: batchId
  d_notes,        \* notes
  d_loading,      \* loading
  s_batchId,      \* MixStockScreen.js: batchId
  s_notes,        \* notes
  s_loading,      \* loading
  a_batchId,      \* unnamed/part_001: batchId
  a_notes,        \* notes
  a_loading,      \* loading
  user,           \* the user supabase.auth.getUser() returns
  db_recipes,     \* the "recipes" table
  route_loadRecipeId, \* route.params.loadRecipeId of the Mix screen
  saves,          \* the calls of saveRecipe in flight
  loads,          \* the calls of loadRecipeById of the mounted screen
  fetches,        \* the calls of loadFerts in flight
  seeds,          \* FertilizerListScreen.js: fertilizers.full.json
  db_fertilizers, \* the names in the "fertilizers" table
  imports         \* the calls of bulkImportFromJson in flight

dvars == <<d_weightUnit, d_volumeL, d_doseMode, d_ingredients, d_ecScale, d_ferts>>

svars == <<s_stockVolumeL, s_ratio, s_weightUnit, s_ecScale, s_rows, s_ferts>>

avars == <<a_volumeL, a_doseMode, a_weightUnit, a_ecScale, a_rows, a_ferts>>

lvars == <<l_allFerts, l_volumeL, l_doseMode, l_rows>>

d_job == <<d_batchId, d_notes>>

s_job == <<s_batchId, s_notes>>

a_job == <<a_batchId, a_notes>>

rvars == <<user, db_recipes, route_loadRecipeId, saves, loads, fetches>>

ivars == <<seeds, db_fertilizers, imports>>

xvars == <<d_job, d_loading, s_job, s_loading, a_job, a_loading, rvars, ivars>>

vars == <<screen, dvars, svars, avars, lvars, xvars>>

(***************************************************************************)
(* MixDirectScreen.js                                                      *)
(***************************************************************************)
\* num = (s) => (Number.isFinite(Number(s)) ? Number(s) : 0)
num(s) == IF NumberIsFinite(NumberOfText(s)) THEN NumberOfText(s) ELSE Zero

\* vol = Math.max(0, num(volumeL))
Direct_vol(volumeL) == MathMax(Zero, num(volumeL))

\* getFert falling back to the first record when no id matches
getFert_firstWhenMissing(ferts, id) ==
  LET m == SelectSeq(ferts, LAMBDA f : f.id = id)
  IN  IF m = <<>> THEN (IF ferts = <<>> THEN <<>> ELSE <<ferts[1]>>) ELSE <<m[1]>>

\* getFert = (id) => ferts.find((f) => f.id === id); <<>> is undefined
getFert(ferts, id) ==
  LET m == SelectSeq(ferts, LAMBDA f : f.id = id)
  IN  IF m = <<>> THEN <<>> ELSE <<m[1]>>

\* unitFactor = weightUnit === "kg" ? 1000 : 1
Direct_unitFactor(weightUnit) == IF weightUnit = "kg" THEN Thousand ELSE One

\* pct without the null/"" guard: Number(v) alone (undefined gives NaN)
pct_withoutGuard(v) == NumberOfJson(v)

\* pct = (v) => (v == null || v === "" ? 0 : Number(v))
pct(v) == IF v.t \in {"null", "undef", "empty"} THEN Zero ELSE NumberOfJson(v)

\* gramsTotal without the volume factor in per-L mode
Direct_gramsTotal_withoutVolume(row, doseMode, vol, unitFactor) ==
  IF doseMode = "total"
  THEN Mul(num(row.gTotal), unitFactor)
  ELSE Mul(num(row.gPerL), unitFactor)

\* gramsTotal of a row
Direct_gramsTotal(row, doseMode, vol, unitFactor) ==
  IF doseMode = "total"
  THEN Mul(num(row.gTotal), unitFactor)
  ELSE Mul(Mul(num(row.gPerL), unitFactor), vol)

\* gPerL without the vol > 0 guard
Direct_gPerL_unguarded(gramsTotal, vol) == Div(gramsTotal, vol)

\* gPerL = vol > 0 ? gramsTotal / vol : 0
Direct_gPerL(gramsTotal, vol) ==
  IF Gt(vol, Zero) THEN Div(gramsTotal, vol) ELSE Zero

\* Mg_pct with a case-sensitive /MgO/ test
Mg_pct_caseSensitive(fert) ==
  LET p == pct(Field(fert.npk, "Mg"))
  IN  IF Gt(p, Zero) /\ Contains(fert.name, Pat_MgO)
      THEN Mul(p, MgO_TO_Mg) ELSE p

\* Mg_pct, after the MgO correction
Mg_pct(fert) ==
  LET p == pct(Field(fert.npk, "Mg"))
  IN  IF Gt(p, Zero) /\ TestIgnoreCase(Pat_MgO, fert.name)
      THEN Mul(p, MgO_TO_Mg) ELSE p

\* the percent a fertilizer contributes to nutrient k in the results loop
LoopPct(fert, k) ==
  IF k = "Mg" THEN Mg_pct(fert)
  ELSE IF k \in MacroKeys THEN pct(Field(fert.npk, k))
  ELSE pct(Field(fert.micro, k))

\* price = Number(fert.price_per_bag) || 0
PriceOf(fert) == OrElse(NumberOfJson(fert.price_per_bag), Zero)

\* bagKg = Number(fert.bag_size_kg) || 0
BagKgOf(fert) == OrElse(NumberOfJson(fert.bag_size_kg), Zero)

\* the cost line without the bagKg > 0 test
AddCost_withoutBagTest(cost, fert, grams) ==
  IF Gt(PriceOf(fert), Zero)
  THEN Add(cost, Mul(grams, Div(PriceOf(fert), Mul(BagKgOf(fert), Thousand))))
  ELSE cost

\* if (price>0 && bagKg>0) cost += grams * (price/(bagKg*1000))
AddCost(cost, fert, grams) ==
  IF Gt(PriceOf(fert), Zero) /\ Gt(BagKgOf(fert), Zero)
  THEN Add(cost, Mul(grams, Div(PriceOf(fert), Mul(BagKgOf(fert), Thousand))))
  ELSE cost

\* one pass of the loop body of results
Direct_resultsRow(acc, row, ferts, doseMode, vol, unitFactor) ==
  LET fert == getFert(ferts, row.fertId)
  IN  IF fert = <<>> THEN acc
      ELSE LET gramsTotal == Direct_gramsTotal(row, doseMode, vol, unitFactor)
               gPerL == Direct_gPerL(gramsTotal, vol)
           IN  [ppm |-> [k \in Nutrients |->
                          Add(acc.ppm[k], Mul(Mul(gPerL, LoopPct(fert[1], k)), Ten))],
                costRM |-> AddCost(acc.costRM, fert[1], gramsTotal)]

RECURSIVE Direct_resultsLoop(_, _, _, _, _, _, _)
Direct_resultsLoop(acc, i, ingredients, ferts, doseMode, vol, unitFactor) ==
  IF i > Len(ingredients) THEN acc
  ELSE Direct_resultsLoop(
         Direct_resultsRow(acc, ingredients[i], ferts, doseMode, vol, unitFactor),
         i + 1, ingredients, ferts, doseMode, vol, unitFactor)

\* results = useMemo(..., [ingredients, ferts, doseMode, vol, unitFactor])
Direct_results(ingredients, ferts, doseMode, vol, unitFactor) ==
  Direct_resultsLoop([ppm |-> ZeroPpm, costRM |-> Zero], 1,
                     ingredients, ferts, doseMode, vol, unitFactor)

\* the scale without its fallback
Direct_scale_asTyped(ecScale) == num(ecScale)

\* scale = num(ecScale) || 1
Direct_scale(ecScale) == OrElse(num(ecScale), One)

RECURSIVE Direct_ecLoop(_, _, _, _, _, _, _)
Direct_ecLoop(sum, i, ingredients, ferts, doseMode, vol, unitFactor) ==
  IF i > Len(ingredients) THEN sum
  ELSE LET row == ingredients[i]
           fert == getFert(ferts, row.fertId)
           gPerL == Direct_gPerL(Direct_gramsTotal(row, doseMode, vol, unitFactor), vol)
       IN  Direct_ecLoop(
             IF fert = <<>> THEN sum ELSE Add(sum, Mul(gPerL, inferECk(fert[1].name))),
             i + 1, ingredients, ferts, doseMode, vol, unitFactor)

\* ecEstimate = useMemo(..., [ingredients, ferts, doseMode, vol, ecScale, unitFactor])
Direct_ecEstimate(ingredients, ferts, doseMode, vol, ecScale, unitFactor) ==
  Mul(Direct_ecLoop(Zero, 1, ingredients, ferts, doseMode, vol, unitFactor),
      Direct_scale(ecScale))

\* the values the mounted direct screen shows
d_vol == Direct_vol(d_volumeL)

d_unitFactor == Direct_unitFactor(d_weightUnit)

d_results == Direct_results(d_ingredients, d_ferts, d_doseMode, d_vol, d_unitFactor)

d_ecEstimate ==
  Direct_ecEstimate(d_ingredients, d_ferts, d_doseMode, d_vol, d_ecScale, d_unitFactor)

Direct_Init ==
  /\ d_weightUnit = "g"
  /\ d_volumeL = Dec(100, 0)
  /\ d_doseMode = "total"
  /\ d_ingredients = <<>>
  /\ d_ecScale = Dec(110, 2)
  /\ d_ferts = <<>>

\* loadFerts, the fetch succeeding: setFerts(data ?? []), setLoading(false)
Direct_loadFerts ==
  /\ screen = "direct"
  /\ d_ferts' = FertTable
  /\ d_loading' = FALSE
  /\ UNCHANGED <<screen, d_job, s_job, s_loading, a_job, a_loading, rvars, ivars, svars, avars, lvars, d_weightUnit, d_volumeL, d_doseMode, d_ingredients, d_ecScale>>

\* onChangeText={setVolumeL}
Direct_setVolumeL ==
  /\ screen = "direct"
  /\ \E t \in VolumeTexts : d_volumeL' = t
  /\ UNCHANGED <<screen, xvars, svars, avars, lvars, d_weightUnit, d_doseMode, d_ingredients, d_ecScale, d_ferts>>

\* onPress={() => setDoseMode("total" / "perL")}
Direct_setDoseMode ==
  /\ screen = "direct"
  /\ \E m \in {"total", "perL"} : d_doseMode' = m
  /\ UNCHANGED <<screen, xvars, svars, avars, lvars, d_weightUnit, d_volumeL, d_ingredients, d_ecScale, d_ferts>>

\* onPress={() => setWeightUnit("g" / "kg")}
Direct_setWeightUnit ==
  /\ screen = "direct"
  /\ \E u \in {"g", "kg"} : d_weightUnit' = u
  /\ UNCHANGED <<screen, xvars, svars, avars, lvars, d_volumeL, d_doseMode, d_ingredients, d_ecScale, d_ferts>>

\* onChangeText={setEcScale}
Direct_setEcScale ==
  /\ screen = "direct"
  /\ \E t \in EcScaleTexts : d_ecScale' = t
  /\ UNCHANGED <<screen, xvars, svars, avars, lvars, d_weightUnit, d_volumeL, d_doseMode, d_ingredients, d_ferts>>

\* addRow
Direct_addRow ==
  /\ screen = "direct"
  /\ Len(d_ingredients) < MaxRows
  /\ d_ingredients' = Append(d_ingredients, BlankRow)
  /\ UNCHANGED <<screen, xvars, svars, avars, lvars, d_weightUnit, d_volumeL, d_doseMode, d_ecScale, d_ferts>>

\* removeRow(key): keys are unique, so the row is named by its position
Direct_removeRow ==
  /\ screen = "direct"
  /\ \E i \in 1..Len(d_ingredients) :
       d_ingredients' = [j \in 1..(Len(d_ingredients) - 1) |->
                           IF j < i THEN d_ingredients[j] ELSE d_ingredients[j + 1]]
  /\ UNCHANGED <<screen, xvars, svars, avars, lvars, d_weightUnit, d_volumeL, d_doseMode, d_ecScale, d_ferts>>

\* selectFert(rowIdx, fert), fert picked from the loaded list
Direct_selectFert ==
  /\ screen = "direct"
  /\ \E rowIdx \in 1..MaxRows : \E n \in 1..Len(d_ferts) :
       d_ingredients' = [i \in 1..Len(d_ingredients) |->
                           IF i = rowIdx
                           THEN [d_ingredients[i] EXCEPT !.fertId = d_ferts[n].id,
                                                         !.name = d_ferts[n].name]
                           ELSE d_ingredients[i]]
  /\ UNCHANGED <<screen, xvars, svars, avars, lvars, d_weightUnit, d_volumeL, d_doseMode, d_ecScale, d_ferts>>

\* the amount field's onChangeText: sets gTotal in total mode, gPerL in per-L mode
Direct_changeAmount ==
  /\ screen = "direct"
  /\ \E idx \in 1..Len(d_ingredients) :
       \E t \in (IF d_doseMode = "total" THEN TotalTexts ELSE PerLTexts) \cup {TxtEmpty} :
         d_ingredients' = [i \in 1..Len(d_ingredients) |->
                             IF i = idx
                             THEN (IF d_doseMode = "total"
                                   THEN [d_ingredients[i] EXCEPT !.gTotal = t]
                                   ELSE [d_ingredients[i] EXCEPT !.gPerL = t])
                             ELSE d_ingredients[i]]
  /\ UNCHANGED <<screen, xvars, svars, avars, lvars, d_weightUnit, d_volumeL, d_doseMode, d_ecScale, d_ferts>>

Direct_Next ==
  \/ Direct_loadFerts
  \/ Direct_setVolumeL
  \/ Direct_setDoseMode
  \/ Direct_setWeightUnit
  \/ Direct_setEcScale
  \/ Direct_addRow
  \/ Direct_removeRow
  \/ Direct_selectFert
  \/ Direct_changeAmount

(***************************************************************************)
(* MixStockScreen.js                                                       *)
(***************************************************************************)
\* "200", "0", "0.5", "-3"
RatioTexts == {Dec(200, 0), Dec(0, 0), Dec(5, 1), Dec(-3, 0)}

\* "2000"
StockTexts == {Dec(2000, 0)}

TwoHundred == <<200, 1>>

\* a row as addRow creates it
Stock_BlankRow == [fertId |-> NullId, name |-> EmptyName, gramsTotal |-> TxtEmpty]

\* volStock = Math.max(0, num(stockVolumeL))
Stock_volStock(stockVolumeL) == MathMax(Zero, num(stockVolumeL))

\* injRatio = Math.max(1, num(ratio) || 200)
Stock_injRatio(ratio) == MathMax(One, OrElse(num(ratio), TwoHundred))

\* toGrams that ignores the unit
Stock_toGrams_ignoringUnit(v, weightUnit) == num(v)

\* toGrams = (v) => (weightUnit === "g" ? num(v) : num(v) * 1000)
Stock_toGrams(v, weightUnit) ==
  IF weightUnit = "g" THEN num(v) ELSE Mul(num(v), Thousand)

\* gDripPerL without the division by injRatio (the stock concentration)
Stock_gDripPerL_undiluted(r, weightUnit, volStock, injRatio) ==
  Div(Stock_toGrams(r.gramsTotal, weightUnit), volStock)

\* gDripPerL = (toGrams(r.gramsTotal) / volStock) / injRatio
Stock_gDripPerL(r, weightUnit, volStock, injRatio) ==
  Div(Div(Stock_toGrams(r.gramsTotal, weightUnit), volStock), injRatio)

\* one pass of the loop body of results
Stock_resultsRow(acc, r, ferts, weightUnit, volStock, injRatio) ==
  LET f == getFert(ferts, r.fertId)
  IN  IF f = <<>> \/ ~Truthy(volStock) THEN acc
      ELSE LET gDripPerL == Stock_gDripPerL(r, weightUnit, volStock, injRatio)
           IN  [ppm |-> [k \in Nutrients |->
                          Add(acc.ppm[k], Mul(Mul(gDripPerL, LoopPct(f[1], k)), Ten))],
                costRM |-> AddCost(acc.costRM, f[1],
                                   Stock_toGrams(r.gramsTotal, weightUnit))]

RECURSIVE Stock_resultsLoop(_, _, _, _, _, _, _)
Stock_resultsLoop(acc, i, rows, ferts, weightUnit, volStock, injRatio) ==
  IF i > Len(rows) THEN acc
  ELSE Stock_resultsLoop(
         Stock_resultsRow(acc, rows[i], ferts, weightUnit, volStock, injRatio),
         i + 1, rows, ferts, weightUnit, volStock, injRatio)

\* results = useMemo(..., [rows, ferts, volStock, injRatio, weightUnit])
Stock_results(rows, ferts, weightUnit, volStock, injRatio) ==
  Stock_resultsLoop([ppm |-> ZeroPpm, costRM |-> Zero], 1,
                    rows, ferts, weightUnit, volStock, injRatio)

\* scale = Number(ecScale) || 1
Stock_scale(ecScale) == OrElse(NumberOfText(ecScale), One)

RECURSIVE Stock_ecLoop(_, _, _, _, _, _, _)
Stock_ecLoop(sum, i, rows, ferts, weightUnit, volStock, injRatio) ==
  IF i > Len(rows) THEN sum
  ELSE LET f == getFert(ferts, rows[i].fertId)
       IN  Stock_ecLoop(
             IF f = <<>> THEN sum
             ELSE Add(sum, Mul(Stock_gDripPerL(rows[i], weightUnit, volStock, injRatio),
                               Stock_inferECk(f[1].name))),
             i + 1, rows, ferts, weightUnit, volStock, injRatio)

\* ecEstimate = useMemo(..., [rows, ferts, volStock, injRatio, weightUnit, ecScale])
Stock_ecEstimate(rows, ferts, weightUnit, volStock, injRatio, ecScale) ==
  IF ~Truthy(volStock) THEN Zero
  ELSE Mul(Stock_ecLoop(Zero, 1, rows, ferts, weightUnit, volStock, injRatio),
           Stock_scale(ecScale))

\* the values the mounted stock screen shows
s_volStock == Stock_volStock(s_stockVolumeL)

s_injRatio == Stock_injRatio(s_ratio)

s_results == Stock_results(s_rows, s_ferts, s_weightUnit, s_volStock, s_injRatio)

s_ecEstimate ==
  Stock_ecEstimate(s_rows, s_ferts, s_weightUnit, s_volStock, s_injRatio, s_ecScale)

Stock_Init ==
  /\ s_stockVolumeL = Dec(100, 0)
  /\ s_ratio = Dec(200, 0)
  /\ s_weightUnit = "g"
  /\ s_ecScale = Dec(110, 2)
  /\ s_rows = <<>>
  /\ s_ferts = <<>>

\* loadFerts, the fetch succeeding: setFerts(data ?? []), setLoading(false)
Stock_loadFerts ==
  /\ screen = "stock"
  /\ s_ferts' = FertTable
  /\ s_loading' = FALSE
  /\ UNCHANGED <<screen, s_job, d_job, d_loading, a_job, a_loading, rvars, ivars, dvars, avars, lvars, s_stockVolumeL, s_ratio, s_weightUnit, s_ecScale, s_rows>>

\* onChangeText={setStockVolumeL}
Stock_setStockVolumeL ==
  /\ screen = "stock"
  /\ \E t \in VolumeTexts : s_stockVolumeL' = t
  /\ UNCHANGED <<screen, xvars, dvars, avars, lvars, s_ratio, s_weightUnit, s_ecScale, s_rows, s_ferts>>

\* onChangeText={setRatio}
Stock_setRatio ==
  /\ screen = "stock"
  /\ \E t \in RatioTexts : s_ratio' = t
  /\ UNCHANGED <<screen, xvars, dvars, avars, lvars, s_stockVolumeL, s_weightUnit, s_ecScale, s_rows, s_ferts>>

\* onChangeText={setEcScale}
Stock_setEcScale ==
  /\ screen = "stock"
  /\ \E t \in EcScaleTexts : s_ecScale' = t
  /\ UNCHANGED <<screen, xvars, dvars, avars, lvars, s_stockVolumeL, s_ratio, s_weightUnit, s_rows, s_ferts>>

\* a switch that relabels the unit and leaves the amount text as typed
Stock_switchText_relabelling(text, next) == text

\* the text switchUnit(next) writes into a row's amount field
Stock_switchText(text, next) ==
  LET val == num(text)
  IN  IF ~Truthy(val) THEN text
      ELSE StringOfNumber(IF next = "kg" THEN Div(val, Thousand) ELSE Mul(val, Thousand))

\* switchUnit(next)
Stock_switchUnit ==
  /\ screen = "stock"
  /\ \E next \in {"g", "kg"} :
       IF next = s_weightUnit
       THEN UNCHANGED <<s_rows, s_weightUnit>>
       ELSE /\ s_rows' = [i \in 1..Len(s_rows) |->
                            [s_rows[i] EXCEPT
                               !.gramsTotal = Stock_switchText(s_rows[i].gramsTotal, next)]]
            /\ s_weightUnit' = next
  /\ UNCHANGED <<screen, xvars, dvars, avars, lvars, s_stockVolumeL, s_ratio, s_ecScale, s_ferts>>

\* addRow
Stock_addRow ==
  /\ screen = "stock"
  /\ Len(s_rows) < MaxRows
  /\ s_rows' = Append(s_rows, Stock_BlankRow)
  /\ UNCHANGED <<screen, xvars, dvars, avars, lvars, s_stockVolumeL, s_ratio, s_weightUnit, s_ecScale, s_ferts>>

\* removeRow(key): keys are unique, so the row is named by its position
Stock_removeRow ==
  /\ screen = "stock"
  /\ \E i \in 1..Len(s_rows) :
       s_rows' = [j \in 1..(Len(s_rows) - 1) |->
                    IF j < i THEN s_rows[j] ELSE s_rows[j + 1]]
  /\ UNCHANGED <<screen, xvars, dvars, avars, lvars, s_stockVolumeL, s_ratio, s_weightUnit, s_ecScale, s_ferts>>

\* selectFert(idx, f), f picked from the loaded list
Stock_selectFert ==
  /\ screen = "stock"
  /\ \E idx \in 1..MaxRows : \E n \in 1..Len(s_ferts) :
       s_rows' = [i \in 1..Len(s_rows) |->
                    IF i = idx
                    THEN [s_rows[i] EXCEPT !.fertId = s_ferts[n].id,
                                           !.name = s_ferts[n].name]
                    ELSE s_rows[i]]
  /\ UNCHANGED <<screen, xvars, dvars, avars, lvars, s_stockVolumeL, s_ratio, s_weightUnit, s_ecScale, s_ferts>>

\* the amount field's onChangeText
Stock_changeAmount ==
  /\ screen = "stock"
  /\ \E idx \in 1..Len(s_rows) : \E t \in StockTexts \cup {TxtEmpty} :
       s_rows' = [i \in 1..Len(s_rows) |->
                    IF i = idx THEN [s_rows[i] EXCEPT !.gramsTotal = t] ELSE s_rows[i]]
  /\ UNCHANGED <<screen, xvars, dvars, avars, lvars, s_stockVolumeL, s_ratio, s_weightUnit, s_ecScale, s_ferts>>

Stock_Next ==
  \/ Stock_loadFerts
  \/ Stock_setStockVolumeL
  \/ Stock_setRatio
  \/ Stock_setEcScale
  \/ Stock_switchUnit
  \/ Stock_addRow
  \/ Stock_removeRow
  \/ Stock_selectFert
  \/ Stock_changeAmount

(***************************************************************************)
(* unnamed/part_001: the direct mixer with switchUnit                      *)
(***************************************************************************)
\* toGrams = (v) => (weightUnit === "g" ? num(v) : num(v) * 1000)
Alt_toGrams(v, weightUnit) ==
  IF weightUnit = "g" THEN num(v) ELSE Mul(num(v), Thousand)

\* gPerL of a row
Alt_gPerL(r, doseMode, vol, weightUnit) ==
  IF doseMode = "total"
  THEN (IF Gt(vol, Zero) THEN Div(Alt_toGrams(r.gTotal, weightUnit), vol) ELSE Zero)
  ELSE Alt_toGrams(r.gPerL, weightUnit)

\* totalG of a row
Alt_totalG(r, doseMode, vol, weightUnit) ==
  IF doseMode = "total"
  THEN Alt_toGrams(r.gTotal, weightUnit)
  ELSE Mul(Alt_toGrams(r.gPerL, weightUnit), vol)

\* one pass of the loop body of results
Alt_resultsRow(acc, r, ferts, doseMode, vol, weightUnit) ==
  LET f == getFert(ferts, r.fertId)
  IN  IF f = <<>> THEN acc
      ELSE LET gPerL == Alt_gPerL(r, doseMode, vol, weightUnit)
           IN  [ppm |-> [k \in Nutrients |->
                          Add(acc.ppm[k], Mul(Mul(gPerL, LoopPct(f[1], k)), Ten))],
                costRM |-> AddCost(acc.costRM, f[1],
                                   Alt_totalG(r, doseMode, vol, weightUnit))]

RECURSIVE Alt_resultsLoop(_, _, _, _, _, _, _)
Alt_resultsLoop(acc, i, rows, ferts, doseMode, vol, weightUnit) ==
  IF i > Len(rows) THEN acc
  ELSE Alt_resultsLoop(Alt_resultsRow(acc, rows[i], ferts, doseMode, vol, weightUnit),
                       i + 1, rows, ferts, doseMode, vol, weightUnit)

\* results = useMemo(..., [rows, ferts, doseMode, vol, weightUnit])
Alt_results(rows, ferts, doseMode, vol, weightUnit) ==
  Alt_resultsLoop([ppm |-> ZeroPpm, costRM |-> Zero], 1,
                  rows, ferts, doseMode, vol, weightUnit)

RECURSIVE Alt_ecLoop(_, _, _, _, _, _, _)
Alt_ecLoop(sum, i, rows, ferts, doseMode, vol, weightUnit) ==
  IF i > Len(rows) THEN sum
  ELSE LET f == getFert(ferts, rows[i].fertId)
       IN  Alt_ecLoop(
             IF f = <<>> THEN sum
             ELSE Add(sum, Mul(Alt_gPerL(rows[i], doseMode, vol, weightUnit),
                               ecK(f[1].name))),
             i + 1, rows, ferts, doseMode, vol, weightUnit)

\* ecEstimate = useMemo(..., [rows, ferts, doseMode, vol, weightUnit, ecScale])
Alt_ecEstimate(rows, ferts, doseMode, vol, weightUnit, ecScale) ==
  Mul(Alt_ecLoop(Zero, 1, rows, ferts, doseMode, vol, weightUnit),
      OrElse(num(ecScale), One))

\* the values the mounted screen shows
a_vol == MathMax(Zero, num(a_volumeL))

a_results == Alt_results(a_rows, a_ferts, a_doseMode, a_vol, a_weightUnit)

a_ecEstimate == Alt_ecEstimate(a_rows, a_ferts, a_doseMode, a_vol, a_weightUnit, a_ecScale)

Alt_Init ==
  /\ a_volumeL = Dec(100, 0)
  /\ a_doseMode = "total"
  /\ a_weightUnit = "g"
  /\ a_ecScale = Dec(110, 2)
  /\ a_rows = <<>>
  /\ a_ferts = <<>>

\* loadFerts, the fetch succeeding
Alt_loadFerts ==
  /\ screen = "alt"
  /\ a_ferts' = FertTable
  /\ a_loading' = FALSE
  /\ UNCHANGED <<screen, a_job, d_job, d_loading, s_job, s_loading, rvars, ivars, dvars, svars, lvars, a_volumeL, a_doseMode, a_weightUnit, a_ecScale, a_rows>>

\* onChangeText={setVolumeL}
Alt_setVolumeL ==
  /\ screen = "alt"
  /\ \E t \in VolumeTexts : a_volumeL' = t
  /\ UNCHANGED <<screen, xvars, dvars, svars, lvars, a_doseMode, a_weightUnit, a_ecScale, a_rows, a_ferts>>

\* onPress={() => setDoseMode(...)}
Alt_setDoseMode ==
  /\ screen = "alt"
  /\ \E m \in {"total", "perL"} : a_doseMode' = m
  /\ UNCHANGED <<screen, xvars, dvars, svars, lvars, a_volumeL, a_weightUnit, a_ecScale, a_rows, a_ferts>>

\* onChangeText={setEcScale}
Alt_setEcScale ==
  /\ screen = "alt"
  /\ \E t \in EcScaleTexts : a_ecScale' = t
  /\ UNCHANGED <<screen, xvars, dvars, svars, lvars, a_volumeL, a_doseMode, a_weightUnit, a_rows, a_ferts>>

\* the text switchUnit(next) writes into an amount field
Alt_switchText(text, next) ==
  LET v == num(text)
  IN  IF Truthy(v)
      THEN StringOfNumber(IF next = "kg" THEN Div(v, Thousand) ELSE Mul(v, Thousand))
      ELSE text

\* switchUnit(next)
Alt_switchUnit ==
  /\ screen = "alt"
  /\ \E next \in {"g", "kg"} :
       IF next = a_weightUnit
       THEN UNCHANGED <<a_rows, a_weightUnit>>
       ELSE /\ a_rows' = [i \in 1..Len(a_rows) |->
                            [a_rows[i] EXCEPT
                               !.gTotal = Alt_switchText(a_rows[i].gTotal, next),
                               !.gPerL = Alt_switchText(a_rows[i].gPerL, next)]]
            /\ a_weightUnit' = next
  /\ UNCHANGED <<screen, xvars, dvars, svars, lvars, a_volumeL, a_doseMode, a_ecScale, a_ferts>>

\* addRow
Alt_addRow ==
  /\ screen = "alt"
  /\ Len(a_rows) < MaxRows
  /\ a_rows' = Append(a_rows, BlankRow)
  /\ UNCHANGED <<screen, xvars, dvars, svars, lvars, a_volumeL, a_doseMode, a_weightUnit, a_ecScale, a_ferts>>

\* removeRow(key): keys are unique, so the row is named by its position
Alt_removeRow ==
  /\ screen = "alt"
  /\ \E i \in 1..Len(a_rows) :
       a_rows' = [j \in 1..(Len(a_rows) - 1) |->
                    IF j < i THEN a_rows[j] ELSE a_rows[j + 1]]
  /\ UNCHANGED <<screen, xvars, dvars, svars, lvars, a_volumeL, a_doseMode, a_weightUnit, a_ecScale, a_ferts>>

\* selectFert(idx, f), f picked from the loaded list
Alt_selectFert ==
  /\ screen = "alt"
  /\ \E idx \in 1..MaxRows : \E n \in 1..Len(a_ferts) :
       a_rows' = [i \in 1..Len(a_rows) |->
                    IF i = idx
                    THEN [a_rows[i] EXCEPT !.fertId = a_ferts[n].id,
                                           !.name = a_ferts[n].name]
                    ELSE a_rows[i]]
  /\ UNCHANGED <<screen, xvars, dvars, svars, lvars, a_volumeL, a_doseMode, a_weightUnit, a_ecScale, a_ferts>>

\* the amount field's onChangeText: the user types the mass in the unit shown
Alt_changeAmount ==
  /\ screen = "alt"
  /\ \E idx \in 1..Len(a_rows) :
       \E t0 \in (IF a_doseMode = "total" THEN TotalTexts ELSE PerLTexts) \cup {TxtEmpty} :
         LET t == IF a_weightUnit = "kg" THEN Alt_switchText(t0, "kg") ELSE t0
         IN  a_rows' = [i \in 1..Len(a_rows) |->
                          IF i = idx
                          THEN (IF a_doseMode = "total"
                                THEN [a_rows[i] EXCEPT !.gTotal = t]
                                ELSE [a_rows[i] EXCEPT !.gPerL = t])
                          ELSE a_rows[i]]
  /\ UNCHANGED <<screen, xvars, dvars, svars, lvars, a_volumeL, a_doseMode, a_weightUnit, a_ecScale, a_ferts>>

Alt_Next ==
  \/ Alt_loadFerts
  \/ Alt_setVolumeL
  \/ Alt_setDoseMode
  \/ Alt_setEcScale
  \/ Alt_switchUnit
  \/ Alt_addRow
  \/ Alt_removeRow
  \/ Alt_selectFert
  \/ Alt_changeAmount

(***************************************************************************)
(* FertilizerDetailScreen.js, lines 912-1330: the AsyncStorage-based       *)
(* direct mixer (totals)                                                   *)
(***************************************************************************)
\* "100"
Legacy_TotalTexts == {Dec(100, 0)}

\* "1"
Legacy_PerLTexts == {Dec(1, 0)}

\* the list stored under STORAGE_KEY: the same products, in this screen's shape
Legacy_fert(f) ==
  [id |-> f.id, name |-> f.name, bagSizeKg |-> f.bag_size_kg,
   pricePerBag |-> f.price_per_bag, npk |-> f.npk, micro |-> f.micro]

Legacy_FertList == [i \in 1..Len(FertTable) |-> Legacy_fert(FertTable[i])]

Hundred == <<100, 1>>

Three == <<3, 1>>

\* num = (v) => (v !== "" && isFinite(v) ? Number(v) : 0), on a text
Legacy_num(s) ==
  IF s.k # "empty" /\ NumberIsFinite(NumberOfText(s)) THEN NumberOfText(s) ELSE Zero

\* num, on a JSON value (isFinite(null) is true and Number(null) is 0)
Legacy_numJson(v) ==
  IF v.t = "num" /\ NumberIsFinite(v.v) THEN v.v ELSE Zero

\* num, on a number
Legacy_numNumber(x) == IF NumberIsFinite(x) THEN x ELSE Zero

\* MG_FROM_MGO = 0.603
MG_FROM_MGO == <<603, 1000>>

\* normalizePct(key, raw)
normalizePct(key, raw) ==
  LET v == Legacy_numJson(raw)
  IN  IF ~Gt(v, Zero) THEN Zero
      ELSE IF key \in MacroKeys
           THEN (IF Gt(v, Zero) /\ Lt(v, One) THEN Mul(v, Hundred)
                 ELSE IF ~Lt(v, One) /\ Lt(v, Three) THEN Mul(v, Ten)
                 ELSE v)
           ELSE v

\* ppmFrom = (key, percent, gPerL) => num(gPerL) * (normalizePct(key, percent) / 100) * 1000
ppmFrom(key, percent, gPerL) ==
  Mul(Mul(Legacy_numNumber(gPerL), Div(normalizePct(key, percent), Hundred)), Thousand)

\* fert.npk?.[k] ?? ""
Legacy_raw(obj, k) ==
  LET v == Field(obj, k) IN IF v.t \in {"null", "undef"} THEN JEmpty ELSE v

\* fertByRow = (row) => allFerts.find((f) => f.id === row.fertId || f.name === row.name)
fertByRow(allFerts, row) ==
  LET m == SelectSeq(allFerts, LAMBDA f : f.id = row.fertId \/ f.name = row.name)
  IN  IF m = <<>> THEN <<>> ELSE <<m[1]>>

\* effectiveGPerL(row)
effectiveGPerL(row, doseMode, vol) ==
  IF doseMode = "perL" THEN Legacy_num(row.gPerL)
  ELSE IF Gt(vol, Zero) THEN Div(Legacy_num(row.gTotal), vol) ELSE Zero

\* totalGramsUsed(row)
totalGramsUsed(row, doseMode, vol) ==
  IF doseMode = "perL" THEN Mul(Legacy_num(row.gPerL), vol) ELSE Legacy_num(row.gTotal)

\* the ppm one row adds to nutrient k (the MACROS.forEach / MICROS.forEach bodies)
Legacy_rowPpm(fert, k, gpl) ==
  IF k \in MacroKeys
  THEN LET ppm == ppmFrom(k, Legacy_raw(fert.npk, k), gpl)
       IN  IF k = "Mg" THEN Mul(ppm, MG_FROM_MGO) ELSE ppm
  ELSE ppmFrom(k, Legacy_raw(fert.micro, k), gpl)

\* one pass of rows.forEach in totals
Legacy_totalsRow(sum, row, allFerts, doseMode, vol) ==
  LET fert == fertByRow(allFerts, row)
      gpl == effectiveGPerL(row, doseMode, vol)
  IN  IF fert = <<>> \/ ~Truthy(gpl) THEN sum
      ELSE LET grams == totalGramsUsed(row, doseMode, vol)
               bagKg == Legacy_numJson(fert[1].bagSizeKg)
               price == Legacy_numJson(fert[1].pricePerBag)
           IN  [ppm |-> [k \in Nutrients |-> Add(sum.ppm[k], Legacy_rowPpm(fert[1], k, gpl))],
                cost |-> IF Truthy(grams) /\ Truthy(bagKg) /\ Truthy(price)
                         THEN Add(sum.cost, Mul(grams, Div(price, Mul(bagKg, Thousand))))
                         ELSE sum.cost]

RECURSIVE Legacy_totalsLoop(_, _, _, _, _, _)
Legacy_totalsLoop(sum, i, rows, allFerts, doseMode, vol) ==
  IF i > Len(rows) THEN sum
  ELSE Legacy_totalsLoop(Legacy_totalsRow(sum, rows[i], allFerts, doseMode, vol),
                         i + 1, rows, allFerts, doseMode, vol)

\* totals = useMemo(..., [rows, allFerts, vol, doseMode]); macros and micros
\* are kept in one map, costPerL = vol ? cost / vol : 0
totals(rows, allFerts, doseMode, vol) ==
  LET sum == Legacy_totalsLoop([ppm |-> ZeroPpm, cost |-> Zero], 1,
                               rows, allFerts, doseMode, vol)
  IN  [ppm |-> sum.ppm, cost |-> sum.cost,
       costPerL |-> IF Truthy(vol) THEN Div(sum.cost, vol) ELSE Zero]

\* vol = useMemo(() => num(volumeL), [volumeL])
l_vol == Legacy_num(l_volumeL)

l_totals == totals(l_rows, l_allFerts, l_doseMode, l_vol)

Legacy_Init ==
  /\ l_allFerts = <<>>
  /\ l_volumeL = Dec(100, 0)
  /\ l_doseMode = "total"
  /\ l_rows = <<>>

\* the mount effect: setAllFerts(list); setRows(r => r.length ? r : [blank row])
Legacy_load ==
  /\ screen = "legacy"
  /\ l_allFerts' = Legacy_FertList
  /\ l_rows' = IF Len(l_rows) > 0 THEN l_rows ELSE <<BlankRow>>
  /\ UNCHANGED <<screen, xvars, dvars, svars, avars, l_volumeL, l_doseMode>>

\* onChangeText={setVolumeL}
Legacy_setVolumeL ==
  /\ screen = "legacy"
  /\ \E t \in VolumeTexts : l_volumeL' = t
  /\ UNCHANGED <<screen, xvars, dvars, svars, avars, l_allFerts, l_doseMode, l_rows>>

\* onPress={() => setDoseMode(...)}
Legacy_setDoseMode ==
  /\ screen = "legacy"
  /\ \E m \in {"total", "perL"} : l_doseMode' = m
  /\ UNCHANGED <<screen, xvars, dvars, svars, avars, l_allFerts, l_volumeL, l_rows>>

\* addRow: the new row goes first
Legacy_addRow ==
  /\ screen = "legacy"
  /\ Len(l_rows) < MaxRows
  /\ l_rows' = <<BlankRow>> \o l_rows
  /\ UNCHANGED <<screen, xvars, dvars, svars, avars, l_allFerts, l_volumeL, l_doseMode>>

\* removeRow(id): the row is named by its position
Legacy_removeRow ==
  /\ screen = "legacy"
  /\ \E i \in 1..Len(l_rows) :
       l_rows' = [j \in 1..(Len(l_rows) - 1) |->
                    IF j < i THEN l_rows[j] ELSE l_rows[j + 1]]
  /\ UNCHANGED <<screen, xvars, dvars, svars, avars, l_allFerts, l_volumeL, l_doseMode>>

\* chooseFertForRow(rowId, fert)
Legacy_chooseFertForRow ==
  /\ screen = "legacy"
  /\ \E idx \in 1..Len(l_rows) : \E n \in 1..Len(l_allFerts) :
       l_rows' = [l_rows EXCEPT ![idx] = [@ EXCEPT !.fertId = l_allFerts[n].id,
                                                   !.name = l_allFerts[n].name]]
  /\ UNCHANGED <<screen, xvars, dvars, svars, avars, l_allFerts, l_volumeL, l_doseMode>>

\* onDoseChange: updateRow(row.id, doseMode === "perL" ? { gPerL: t } : { gTotal: t })
Legacy_onDoseChange ==
  /\ screen = "legacy"
  /\ \E idx \in 1..Len(l_rows) :
       \E t \in (IF l_doseMode = "perL" THEN Legacy_PerLTexts ELSE Legacy_TotalTexts)
                  \cup {TxtEmpty} :
         l_rows' = [l_rows EXCEPT ![idx] =
                      IF l_doseMode = "perL" THEN [@ EXCEPT !.gPerL = t]
                                             ELSE [@ EXCEPT !.gTotal = t]]
  /\ UNCHANGED <<screen, xvars, dvars, svars, avars, l_allFerts, l_volumeL, l_doseMode>>

Legacy_Next ==
  \/ Legacy_load
  \/ Legacy_setVolumeL
  \/ Legacy_setDoseMode
  \/ Legacy_addRow
  \/ Legacy_removeRow
  \/ Legacy_chooseFertForRow
  \/ Legacy_onDoseChange

(***************************************************************************)
(* The specification: one component is mounted and then used.              *)
(***************************************************************************)
\* nowBatchId(): the clock is not modelled, every call returns this text
NowBatchId == "now"

\* no signed-in user: getUser() returns { user: null }
NoUser == "none"

\* a notes text; ratio is the numeral of the " | ratio=1:<n>" suffix the stock screen
\* appends when it saves, TxtEmpty without the suffix
Notes(text, ratio) == [text |-> text, ratio |-> ratio]

\* useState("")
EmptyNotes == Notes("", TxtEmpty)

\* batchId, notes and loading of the three mixers after construction; loading is
\* true until the list of fertilizers has arrived
Job_Init ==
  /\ d_batchId = NowBatchId /\ d_notes = EmptyNotes /\ d_loading = (d_ferts = <<>>)
  /\ s_batchId = NowBatchId /\ s_notes = EmptyNotes /\ s_loading = (s_ferts = <<>>)
  /\ a_batchId = NowBatchId /\ a_notes = EmptyNotes /\ a_loading = (a_ferts = <<>>)

\* a signed-in user, empty tables, no navigation parameter, no call in flight
Backend_Init ==
  /\ user = "u1"
  /\ db_recipes = <<>>
  /\ route_loadRecipeId = NullId
  /\ saves = <<>>
  /\ loads = <<>>
  /\ fetches = <<>>
  /\ seeds = <<>>
  /\ db_fertilizers = <<>>
  /\ imports = <<>>

Init ==
  /\ screen \in {"direct", "stock", "alt", "legacy"}
  /\ Direct_Init
  /\ Stock_Init
  /\ Alt_Init
  /\ Legacy_Init
  /\ Job_Init
  /\ Backend_Init

Next == Direct_Next \/ Stock_Next \/ Alt_Next \/ Legacy_Next

Spec == Init /\ [][Next]_vars

(***************************************************************************)
(* Saving a recipe: saveRecipe of the three mixers and the "recipes" table. *)
(***************************************************************************)
MaxRecipes == 2

MaxSaves == 1

\* JSON.stringify of a number in the request body: a finite number as it is; NaN and
\* Infinity become null, which <<0, 0>> stands for in a stored numeric field
JsonNumber(x) == IF NumberIsFinite(x) THEN x ELSE NaN

\* the items that store the typed number, without the unit factor
Direct_items_asTyped(ingredients, ferts, doseMode, vol, unitFactor) ==
  LET resolved == SelectSeq(ingredients, LAMBDA r : getFert(ferts, r.fertId) # <<>>)
  IN  [i \in 1..Len(resolved) |->
         LET fert == getFert(ferts, resolved[i].fertId)[1]
         IN  [fert_id |-> fert.id, name |-> fert.name,
              grams |-> IF doseMode = "total" THEN num(resolved[i].gTotal)
                        ELSE Mul(num(resolved[i].gPerL), vol)]]

\* recipeSummary.items: ingredients.map(...).filter(Boolean)
Direct_items(ingredients, ferts, doseMode, vol, unitFactor) ==
  LET resolved == SelectSeq(ingredients, LAMBDA r : getFert(ferts, r.fertId) # <<>>)
  IN  [i \in 1..Len(resolved) |->
         LET fert == getFert(ferts, resolved[i].fertId)[1]
         IN  [fert_id |-> fert.id, name |-> fert.name,
              grams |-> IF doseMode = "total"
                        THEN Mul(num(resolved[i].gTotal), unitFactor)
                        ELSE Mul(Mul(num(resolved[i].gPerL), unitFactor), vol)]]

\* the payload of saveRecipe, from the values of the render it was pressed in
Direct_payload(batchId, notes, doseMode, vol, ingredients, ferts, unitFactor) ==
  LET results == Direct_results(ingredients, ferts, doseMode, vol, unitFactor)
  IN  [shared |-> TRUE,
       batch_id |-> batchId,
       notes |-> notes,
       dose_mode |-> doseMode,
       volume_l |-> vol,
       items |-> Direct_items(ingredients, ferts, doseMode, vol, unitFactor),
       ppm |-> results.ppm,
       cost_rm |-> results.costRM]

\* items of the stock screen's saveRecipe
Stock_items(rows, ferts, weightUnit) ==
  LET resolved == SelectSeq(rows, LAMBDA r : getFert(ferts, r.fertId) # <<>>)
  IN  [i \in 1..Len(resolved) |->
         LET f == getFert(ferts, resolved[i].fertId)[1]
         IN  [fert_id |-> f.id, name |-> f.name,
              grams |-> Stock_toGrams(resolved[i].gramsTotal, weightUnit)]]

\* the record the stock screen's saveRecipe inserts; notes ? `${notes} | ratio=1:${injRatio}`
\* : `ratio=1:${injRatio}`
Stock_payload(batchId, notes, rows, ferts, weightUnit, volStock, injRatio) ==
  LET results == Stock_results(rows, ferts, weightUnit, volStock, injRatio)
  IN  [shared |-> TRUE,
       batch_id |-> batchId,
       notes |-> Notes(notes.text, StringOfNumber(injRatio)),
       dose_mode |-> "stock",
       volume_l |-> volStock,
       items |-> Stock_items(rows, ferts, weightUnit),
       ppm |-> results.ppm,
       cost_rm |-> results.costRM]

\* items of part_001's saveRecipe
Alt_items(rows, ferts, doseMode, vol, weightUnit) ==
  LET resolved == SelectSeq(rows, LAMBDA r : getFert(ferts, r.fertId) # <<>>)
  IN  [i \in 1..Len(resolved) |->
         LET f == getFert(ferts, resolved[i].fertId)[1]
         IN  [fert_id |-> f.id, name |-> f.name,
              grams |-> IF doseMode = "total"
                        THEN Alt_toGrams(resolved[i].gTotal, weightUnit)
                        ELSE Mul(Alt_toGrams(resolved[i].gPerL, weightUnit), vol)]]

\* the record part_001's saveRecipe inserts
Alt_payload(batchId, notes, doseMode, vol, rows, ferts, weightUnit) ==
  LET results == Alt_results(rows, ferts, doseMode, vol, weightUnit)
  IN  [shared |-> TRUE,
       batch_id |-> batchId,
       notes |-> notes,
       dose_mode |-> doseMode,
       volume_l |-> vol,
       items |-> Alt_items(rows, ferts, doseMode, vol, weightUnit),
       ppm |-> results.ppm,
       cost_rm |-> results.costRM]

\* the row the insert stores: the request body as JSON, with the owner
Stored(body, owner) ==
  [owner |-> owner,
   shared |-> body.shared,
   batch_id |-> body.batch_id,
   notes |-> body.notes,
   dose_mode |-> body.dose_mode,
   volume_l |-> JsonNumber(body.volume_l),
   items |-> [i \in 1..Len(body.items) |->
                [body.items[i] EXCEPT !.grams = JsonNumber(body.items[i].grams)]],
   ppm |-> [k \in Nutrients |-> JsonNumber(body.ppm[k])],
   cost_rm |-> JsonNumber(body.cost_rm)]

\* saveRecipe pressed in the direct screen, up to its first await: the call keeps the
\* batchId, notes, doseMode, vol and recipeSummary of the render it was pressed in
Direct_saveRecipe ==
  /\ screen = "direct"
  /\ Len(saves) < MaxSaves
  /\ Len(db_recipes) + Len(saves) < MaxRecipes
  /\ saves' = Append(saves,
       [stage |-> "getUser",
        body |-> Direct_payload(d_batchId, d_notes, d_doseMode, d_vol,
                                d_ingredients, d_ferts, d_unitFactor)])
  /\ UNCHANGED <<screen, dvars, svars, avars, lvars, d_job, d_loading, s_job, s_loading,
                 a_job, a_loading, ivars, user, db_recipes, route_loadRecipeId, loads, fetches>>

\* saveRecipe pressed in the stock screen
Stock_saveRecipe ==
  /\ screen = "stock"
  /\ Len(saves) < MaxSaves
  /\ Len(db_recipes) + Len(saves) < MaxRecipes
  /\ saves' = Append(saves,
       [stage |-> "getUser",
        body |-> Stock_payload(s_batchId, s_notes, s_rows, s_ferts, s_weightUnit,
                               s_volStock, s_injRatio)])
  /\ UNCHANGED <<screen, dvars, svars, avars, lvars, d_job, d_loading, s_job, s_loading,
                 a_job, a_loading, ivars, user, db_recipes, route_loadRecipeId, loads, fetches>>

\* saveRecipe pressed in the part_001 screen
Alt_saveRecipe ==
  /\ screen = "alt"
  /\ Len(saves) < MaxSaves
  /\ Len(db_recipes) + Len(saves) < MaxRecipes
  /\ saves' = Append(saves,
       [stage |-> "getUser",
        body |-> Alt_payload(a_batchId, a_notes, a_doseMode, a_vol,
                             a_rows, a_ferts, a_weightUnit)])
  /\ UNCHANGED <<screen, dvars, svars, avars, lvars, d_job, d_loading, s_job, s_loading,
                 a_job, a_loading, ivars, user, db_recipes, route_loadRecipeId, loads, fetches>>

\* a sequence without its element i
Without(seq, i) == [j \in 1..(Len(seq) - 1) |-> IF j < i THEN seq[j] ELSE seq[j + 1]]

\* supabase.auth.getUser() answers a call of saveRecipe: without a user the call
\* alerts and returns, with one it sends the insert
saveRecipe_getUser ==
  /\ \E i \in 1..Len(saves) :
       /\ saves[i].stage = "getUser"
       /\ saves' = IF user = NoUser THEN Without(saves, i)
                   ELSE [saves EXCEPT ![i].stage = "insert"]
  /\ UNCHANGED <<screen, dvars, svars, avars, lvars, d_job, d_loading, s_job, s_loading,
                 a_job, a_loading, ivars, user, db_recipes, route_loadRecipeId, loads, fetches>>

\* the insert succeeds: the table holds the record
saveRecipe_insert ==
  /\ \E i \in 1..Len(saves) :
       /\ saves[i].stage = "insert"
       /\ db_recipes' = Append(db_recipes, Stored(saves[i].body, user))
       /\ saves' = Without(saves, i)
  /\ UNCHANGED <<screen, dvars, svars, avars, lvars, d_job, d_loading, s_job, s_loading,
                 a_job, a_loading, ivars, user, route_loadRecipeId, loads, fetches>>

\* the insert answers with an error: Alert "Save error", nothing is stored
saveRecipe_error ==
  /\ \E i \in 1..Len(saves) :
       /\ saves[i].stage = "insert"
       /\ saves' = Without(saves, i)
  /\ UNCHANGED <<screen, dvars, svars, avars, lvars, d_job, d_loading, s_job, s_loading,
                 a_job, a_loading, ivars, user, db_recipes, route_loadRecipeId, loads, fetches>>

(***************************************************************************)
(* Loading a saved recipe: open of the saved-recipes screen (part_000),    *)
(* useFocusEffect and loadRecipeById of the Mix screen.                    *)
(***************************************************************************)
MaxLoads == 2

\* open(id): nav.navigate("Mix", { loadRecipeId: id }), pressed on a row of the list.
\* The focus effect of an earlier navigation has run by then: effects are flushed
\* before the next press is handled.
SavedRecipes_open ==
  /\ screen \in {"direct", "alt"}
  /\ route_loadRecipeId = NullId
  /\ Len(loads) < MaxLoads
  /\ \E id \in 1..Len(db_recipes) : route_loadRecipeId' = id
  /\ UNCHANGED <<screen, dvars, svars, avars, lvars, d_job, d_loading, s_job, s_loading,
                 a_job, a_loading, ivars, user, db_recipes, saves, loads, fetches>>

\* a call of loadRecipeById(id) up to its await; the callback is the one of the
\* render the effect ran in and keeps that render's weight unit
LoadCall(id, weightUnit) == [id |-> id, weightUnit |-> weightUnit, settled |-> FALSE]

\* the focus effect that leaves the parameter set
Direct_useFocusEffect_keepingParam ==
  /\ screen = "direct"
  /\ IF route_loadRecipeId # NullId /\ Len(loads) < MaxLoads
     THEN loads' = Append(loads, LoadCall(route_loadRecipeId, d_weightUnit))
     ELSE UNCHANGED loads
  /\ UNCHANGED <<screen, dvars, svars, avars, lvars, d_job, d_loading, s_job, s_loading,
                 a_job, a_loading, ivars, user, db_recipes, route_loadRecipeId, saves, fetches>>

\* useFocusEffect: runs on focus and whenever loadRecipeById is re-created;
\* if (id) { loadRecipeById(id); navigation.setParams({ loadRecipeId: undefined }) }
Direct_useFocusEffect ==
  /\ screen = "direct"
  /\ IF route_loadRecipeId # NullId
     THEN /\ loads' = Append(loads, LoadCall(route_loadRecipeId, d_weightUnit))
          /\ route_loadRecipeId' = NullId
     ELSE UNCHANGED <<loads, route_loadRecipeId>>
  /\ UNCHANGED <<screen, dvars, svars, avars, lvars, d_job, d_loading, s_job, s_loading,
                 a_job, a_loading, ivars, user, db_recipes, saves, fetches>>

\* the calls after call i has written its data to the screen; the calls are forgotten
\* once none is in flight
Settle(calls, i) ==
  IF \A j \in 1..Len(calls) : j = i \/ calls[j].settled
  THEN <<>>
  ELSE [calls EXCEPT ![i].settled = TRUE]

\* the calls after call i has thrown: it has written nothing
Thrown(calls, i) ==
  IF \A j \in 1..Len(calls) : j = i \/ calls[j].settled
  THEN <<>>
  ELSE Without(calls, i)

\* the rows loadRecipeById builds from data.items
Direct_loadedRows(data, unitFactor) ==
  [i \in 1..Len(data.items) |->
     LET it == data.items[i]
         grams == OrElse(it.grams, Zero)
         perL == IF Gt(data.volume_l, Zero) THEN Div(grams, data.volume_l) ELSE Zero
     IN  [fertId |-> it.fert_id,
          name |-> it.name,
          gTotal |-> IF data.dose_mode = "total"
                     THEN StringOfNumber(Div(grams, unitFactor)) ELSE TxtEmpty,
          gPerL |-> IF data.dose_mode = "perL"
                    THEN StringOfNumber(Div(perL, unitFactor)) ELSE TxtEmpty]]

\* data.batch_id || nowBatchId()
LoadedBatchId(data) == IF data.batch_id = "" THEN NowBatchId ELSE data.batch_id

\* String(data.volume_l || 0)
LoadedVolumeL(data) == StringOfNumber(OrElse(data.volume_l, Zero))

\* loadRecipeById after its await, the select answering with the row
Direct_loadRecipeById_data ==
  /\ screen = "direct"
  /\ \E i \in 1..Len(loads) :
       /\ ~loads[i].settled
       /\ LET data == db_recipes[loads[i].id]
          IN  /\ d_batchId' = LoadedBatchId(data)
              /\ d_notes' = data.notes
              /\ d_volumeL' = LoadedVolumeL(data)
              /\ d_doseMode' = data.dose_mode
              /\ d_ingredients' =
                   Direct_loadedRows(data, Direct_unitFactor(loads[i].weightUnit))
       /\ loads' = Settle(loads, i)
  /\ UNCHANGED <<screen, svars, avars, lvars, d_weightUnit, d_ecScale, d_ferts, d_loading,
                 s_job, s_loading, a_job, a_loading, ivars, user, db_recipes,
                 route_loadRecipeId, saves, fetches>>

\* loadRecipeById after its await, the select answering with an error: Alert "Load error"
Direct_loadRecipeById_error ==
  /\ screen = "direct"
  /\ \E i \in 1..Len(loads) :
       /\ ~loads[i].settled
       /\ loads' = Thrown(loads, i)
  /\ UNCHANGED <<screen, dvars, svars, avars, lvars, d_job, d_loading, s_job, s_loading,
                 a_job, a_loading, ivars, user, db_recipes, route_loadRecipeId, saves, fetches>>

\* fromGrams = (g) => (weightUnit === "g" ? g : g / 1000)
Alt_fromGrams(g, weightUnit) == IF weightUnit = "g" THEN g ELSE Div(g, Thousand)

\* the rows part_001's loadRecipeById builds from data.items
Alt_loadedRows(data, weightUnit) ==
  [i \in 1..Len(data.items) |->
     LET it == data.items[i]
         g == OrElse(it.grams, Zero)
     IN  [fertId |-> it.fert_id,
          name |-> it.name,
          gTotal |-> IF data.dose_mode = "total"
                     THEN StringOfNumber(Alt_fromGrams(g, weightUnit)) ELSE TxtEmpty,
          gPerL |-> IF data.dose_mode = "perL" /\ Gt(OrElse(data.volume_l, Zero), Zero)
                    THEN StringOfNumber(Div(Alt_fromGrams(g, weightUnit), data.volume_l))
                    ELSE TxtEmpty]]

\* useFocusEffect of part_001
Alt_useFocusEffect ==
  /\ screen = "alt"
  /\ IF route_loadRecipeId # NullId
     THEN /\ loads' = Append(loads, LoadCall(route_loadRecipeId, a_weightUnit))
          /\ route_loadRecipeId' = NullId
     ELSE UNCHANGED <<loads, route_loadRecipeId>>
  /\ UNCHANGED <<screen, dvars, svars, avars, lvars, d_job, d_loading, s_job, s_loading,
                 a_job, a_loading, ivars, user, db_recipes, saves, fetches>>

\* part_001's loadRecipeById after its await, the select answering with the row
Alt_loadRecipeById_data ==
  /\ screen = "alt"
  /\ \E i \in 1..Len(loads) :
       /\ ~loads[i].settled
       /\ LET data == db_recipes[loads[i].id]
          IN  /\ a_batchId' = LoadedBatchId(data)
              /\ a_notes' = data.notes
              /\ a_volumeL' = LoadedVolumeL(data)
              /\ a_doseMode' = data.dose_mode
              /\ a_rows' = Alt_loadedRows(data, loads[i].weightUnit)
       /\ loads' = Settle(loads, i)
  /\ UNCHANGED <<screen, dvars, svars, lvars, a_weightUnit, a_ecScale, a_ferts, a_loading,
                 d_job, d_loading, s_job, s_loading, ivars, user, db_recipes,
                 route_loadRecipeId, saves, fetches>>

\* part_001's loadRecipeById after its await, the select answering with an error
Alt_loadRecipeById_error ==
  /\ screen = "alt"
  /\ \E i \in 1..Len(loads) :
       /\ ~loads[i].settled
       /\ loads' = Thrown(loads, i)
  /\ UNCHANGED <<screen, dvars, svars, avars, lvars, d_job, d_loading, s_job, s_loading,
                 a_job, a_loading, ivars, user, db_recipes, route_loadRecipeId, saves, fetches>>

\* the app started with mixer c as its Mix screen: every component starts from its
\* useState values and fetches the fertilizers; the tables and the inserts already
\* sent stay.  A call of loadRecipeById of the component that is gone no longer
\* reaches a screen: the app is started again once every such call has settled
\* and the focus effect of the last navigation has run
Mount ==
  /\ loads = <<>>
  /\ route_loadRecipeId = NullId
  /\ \E c \in {"direct", "stock", "alt"} : screen' = c
  /\ d_weightUnit' = "g" /\ d_volumeL' = Dec(100, 0) /\ d_doseMode' = "total"
  /\ d_ingredients' = <<>> /\ d_ecScale' = Dec(110, 2) /\ d_ferts' = <<>>
  /\ s_stockVolumeL' = Dec(100, 0) /\ s_ratio' = Dec(200, 0) /\ s_weightUnit' = "g"
  /\ s_ecScale' = Dec(110, 2) /\ s_rows' = <<>> /\ s_ferts' = <<>>
  /\ a_volumeL' = Dec(100, 0) /\ a_doseMode' = "total" /\ a_weightUnit' = "g"
  /\ a_ecScale' = Dec(110, 2) /\ a_rows' = <<>> /\ a_ferts' = <<>>
  /\ d_batchId' = NowBatchId /\ d_notes' = EmptyNotes /\ d_loading' = TRUE
  /\ s_batchId' = NowBatchId /\ s_notes' = EmptyNotes /\ s_loading' = TRUE
  /\ a_batchId' = NowBatchId /\ a_notes' = EmptyNotes /\ a_loading' = TRUE
  /\ UNCHANGED <<lvars, ivars, user, db_recipes, route_loadRecipeId, saves, loads, fetches>>

(***************************************************************************)
(* loadFerts (MixDirectScreen.js 74-89, MixStockScreen.js 63-78, part_001   *)
(* 96-111), one step per await: the call, the answer of the select, and     *)
(* the rest of the function.                                                *)
(***************************************************************************)
MaxFetches == 2

\* the result of the select: { data, error }; <<>> is a null data
FetchResults ==
  {[error |-> TRUE, data |-> <<>>],
   [error |-> FALSE, data |-> <<>>],
   [error |-> FALSE, data |-> <<FertTable>>],
   [error |-> FALSE, data |-> <<(<<Fert_CalciumNitrate>>)>>]}

\* data ?? []
OrEmptyList(data) == IF data = <<>> THEN <<>> ELSE data[1]

\* loadFerts up to its await: setLoading(true) and the select is sent
loadFerts_call ==
  /\ Len(fetches) < MaxFetches
  /\ fetches' = Append(fetches, [stage |-> "select", result |-> [error |-> FALSE, data |-> <<>>]])
  /\ d_loading' = (IF screen = "direct" THEN TRUE ELSE d_loading)
  /\ s_loading' = (IF screen = "stock" THEN TRUE ELSE s_loading)
  /\ a_loading' = (IF screen = "alt" THEN TRUE ELSE a_loading)
  /\ UNCHANGED <<screen, dvars, svars, avars, lvars, d_job, s_job, a_job, ivars, user,
                 db_recipes, route_loadRecipeId, saves, loads>>

\* the select answers a call
loadFerts_answer ==
  /\ \E i \in 1..Len(fetches) :
       /\ fetches[i].stage = "select"
       /\ \E r \in FetchResults :
            fetches' = [fetches EXCEPT ![i] = [stage |-> "answered", result |-> r]]
  /\ UNCHANGED <<screen, dvars, svars, avars, lvars, d_job, d_loading, s_job, s_loading,
                 a_job, a_loading, ivars, user, db_recipes, route_loadRecipeId, saves, loads>>

\* the list a call leaves after a failed fetch: emptied
FertsAfter_clearedOnError(ferts, result) ==
  IF result.error THEN <<>> ELSE OrEmptyList(result.data)

\* the list a call leaves: if (error) throw error; setFerts(data ?? []); the catch
\* only alerts
FertsAfter(ferts, result) ==
  IF result.error THEN ferts ELSE OrEmptyList(result.data)

\* loadFerts after its await: setFerts(data ?? []) or the catch, then the finally's
\* setLoading(false)
loadFerts_settle ==
  /\ \E i \in 1..Len(fetches) :
       /\ fetches[i].stage = "answered"
       /\ d_ferts' = (IF screen = "direct" THEN FertsAfter(d_ferts, fetches[i].result) ELSE d_ferts)
       /\ s_ferts' = (IF screen = "stock" THEN FertsAfter(s_ferts, fetches[i].result) ELSE s_ferts)
       /\ a_ferts' = (IF screen = "alt" THEN FertsAfter(a_ferts, fetches[i].result) ELSE a_ferts)
       /\ fetches' = Without(fetches, i)
  /\ d_loading' = (IF screen = "direct" THEN FALSE ELSE d_loading)
  /\ s_loading' = (IF screen = "stock" THEN FALSE ELSE s_loading)
  /\ a_loading' = (IF screen = "alt" THEN FALSE ELSE a_loading)
  /\ UNCHANGED <<screen, lvars, d_job, s_job, a_job, ivars, user, db_recipes,
                 route_loadRecipeId, saves, loads,
                 d_weightUnit, d_volumeL, d_doseMode, d_ingredients, d_ecScale,
                 s_stockVolumeL, s_ratio, s_weightUnit, s_ecScale, s_rows,
                 a_volumeL, a_doseMode, a_weightUnit, a_ecScale, a_rows>>

(***************************************************************************)
(* Vocabulary of the properties, stated from the inputs and independent of *)
(* the loops above.                                                        *)
(***************************************************************************)
RECURSIVE SumFn(_, _)
\* the sum of f[x] over x in S
SumFn(f, S) ==
  IF S = {} THEN Zero
  ELSE LET x == CHOOSE y \in S : TRUE IN Add(f[x], SumFn(f, S \ {x}))

\* the row's fertId names a fertilizer of the loaded list
Resolves(ferts, id) == \E j \in 1..Len(ferts) : ferts[j].id = id

FertFor(ferts, id) == ferts[CHOOSE j \in 1..Len(ferts) : ferts[j].id = id]

ResolvedRows(ferts, rows) == {i \in 1..Len(rows) : Resolves(ferts, rows[i].fertId)}

\* the percent of nutrient k a fertilizer declares; null, missing and "" are 0
Declared(f, k) ==
  LET obj == IF k \in MacroKeys THEN f.npk ELSE f.micro
  IN  IF obj.isNull THEN Zero
      ELSE IF obj.get[k].t = "num" THEN obj.get[k].v ELSE Zero

\* the name contains "MgO", in any letter case
HasMgO(name) ==
  \E i \in 1..(Len(name) - 2) :
    /\ name[i] \in {"M", "m"} /\ name[i + 1] \in {"G", "g"} /\ name[i + 2] \in {"O", "o"}

\* the declared percent, with Mg of an MgO-named product converted to elemental Mg
EffectivePct(f, k) ==
  IF k = "Mg" /\ Gt(Declared(f, "Mg"), Zero) /\ HasMgO(f.name)
  THEN Mul(Declared(f, "Mg"), <<603, 1000>>)
  ELSE Declared(f, k)

\* a declared price or bag size; null and missing are 0
DeclaredAmount(v) == IF v.t = "num" THEN v.v ELSE Zero

\* the amount typed in a field, in grams
EnteredGrams(text, unit) ==
  Mul(num(text), IF unit = "kg" THEN <<1000, 1>> ELSE <<1, 1>>)

\* the mass of a row actually added to the vessel, in grams
TotalGramsAdded(row, doseMode, unit, vol) ==
  IF doseMode = "total" THEN EnteredGrams(row.gTotal, unit)
  ELSE Mul(EnteredGrams(row.gPerL, unit), vol)

\* grams per liter of a row as the direct screens derive it: mass over volume,
\* and 0 when the volume is not positive
DirectDelivered(row, doseMode, unit, vol) ==
  IF Gt(vol, Zero) THEN Div(TotalGramsAdded(row, doseMode, unit, vol), vol) ELSE Zero

\* grams per liter of a row at the dripper: stock concentration over the
\* effective injector ratio, and 0 when the stock volume is not positive
StockDelivered(row, unit, volStock, injRatio) ==
  IF Gt(volStock, Zero)
  THEN Div(Div(EnteredGrams(row.gramsTotal, unit), volStock), injRatio)
  ELSE Zero

\* sum over the resolved rows of delivered(row) * percent(fertilizer, k) * 10
PpmSum(rows, ferts, k, delivered(_), percent(_, _)) ==
  SumFn([i \in ResolvedRows(ferts, rows) |->
           Mul(Mul(delivered(rows[i]), percent(FertFor(ferts, rows[i].fertId), k)),
               <<10, 1>>)],
        ResolvedRows(ferts, rows))

d_delivered(row) == DirectDelivered(row, d_doseMode, d_weightUnit, d_vol)

s_delivered(row) == StockDelivered(row, s_weightUnit, s_volStock, s_injRatio)

a_delivered(row) == DirectDelivered(row, a_doseMode, a_weightUnit, a_vol)

(***************************************************************************)
(* C1 (as amended).  In the direct and the stock screen, the ppm of each   *)
(* of the 12 nutrients is the sum, over the rows whose fertilizer          *)
(* resolves, of (grams per liter the screen derives for the row) x         *)
(* (percent) x 10, where the percent is the declared one (null, undefined  *)
(* and "" count as 0) except that Mg of a product whose name contains      *)
(* "MgO" is first multiplied by 0.603.                                     *)
(***************************************************************************)
C1_PpmIsSumWithMgOCorrection ==
  /\ screen = "direct" =>
       \A k \in Nutrients :
         d_results.ppm[k] = PpmSum(d_ingredients, d_ferts, k, d_delivered, EffectivePct)
  /\ screen = "stock" =>
       \A k \in Nutrients :
         s_results.ppm[k] = PpmSum(s_rows, s_ferts, k, s_delivered, EffectivePct)

\* C1 as stated: every nutrient, Mg included, uses the declared percent
C1_PpmIsSumOfDeclared ==
  /\ screen = "direct" =>
       \A k \in Nutrients :
         d_results.ppm[k] = PpmSum(d_ingredients, d_ferts, k, d_delivered, Declared)
  /\ screen = "stock" =>
       \A k \in Nutrients :
         s_results.ppm[k] = PpmSum(s_rows, s_ferts, k, s_delivered, Declared)

\* two resolved rows with a dose, one of them the MgO product, the other a
\* product with null and missing percents
C1_Witness ==
  /\ screen = "direct"
  /\ Len(d_ingredients) = 2
  /\ d_ingredients[1].fertId = Fert_CalciumNitrate.id
  /\ d_ingredients[2].fertId = Fert_CompleteMGO.id
  /\ d_ferts = FertTable
  /\ \A i \in 1..2 : Gt(d_delivered(d_ingredients[i]), Zero)
  /\ Gt(d_results.ppm["Mg"], Zero)
  /\ Gt(d_results.ppm["Ca"], Zero)

(***************************************************************************)
(* C2.  In the stock screen with stock volume > 0, each row is delivered   *)
(* at (grams / stock volume) / max(1, injector ratio), the injector ratio  *)
(* being the number typed in the ratio field, and the ppm are computed     *)
(* from that concentration.                                                *)
(***************************************************************************)
C2_TypedRatioDelivered(row) ==
  Div(Div(EnteredGrams(row.gramsTotal, s_weightUnit), s_volStock),
      MathMax(<<1, 1>>, num(s_ratio)))

C2_PpmFromMaxOneRatio ==
  (screen = "stock" /\ Gt(s_volStock, Zero)) =>
    \A k \in Nutrients :
      s_results.ppm[k] = PpmSum(s_rows, s_ferts, k, C2_TypedRatioDelivered, EffectivePct)

(***************************************************************************)
(* C3.  In the direct screens (MixDirectScreen.js and unnamed/part_001)    *)
(* the batch cost is the sum, over the resolved rows whose fertilizer has  *)
(* price > 0 and bag size > 0, of totalGrams x price / (bagKg x 1000),     *)
(* totalGrams being the entered grams in total mode and entered grams x    *)
(* volume in per-L mode; 500 g total and 5 g/L x 100 L of a 25 kg bag      *)
(* priced 50 both cost 1.                                                  *)
(***************************************************************************)
C3_PricedRows(rows, ferts) ==
  {i \in ResolvedRows(ferts, rows) :
     /\ Gt(DeclaredAmount(FertFor(ferts, rows[i].fertId).price_per_bag), Zero)
     /\ Gt(DeclaredAmount(FertFor(ferts, rows[i].fertId).bag_size_kg), Zero)}

C3_Cost(rows, ferts, doseMode, unit, vol) ==
  SumFn([i \in C3_PricedRows(rows, ferts) |->
           Mul(TotalGramsAdded(rows[i], doseMode, unit, vol),
               Div(DeclaredAmount(FertFor(ferts, rows[i].fertId).price_per_bag),
                   Mul(DeclaredAmount(FertFor(ferts, rows[i].fertId).bag_size_kg),
                       <<1000, 1>>)))],
        C3_PricedRows(rows, ferts))

\* one row of the 25 kg / 50 product: 500 g in total mode, or 5 g/L in 100 L
C3_ExampleDose(rows, doseMode, unit, volumeL) ==
  /\ Len(rows) = 1
  /\ rows[1].fertId = Fert_CalciumNitrate.id
  /\ unit = "g"
  /\ \/ doseMode = "total" /\ rows[1].gTotal = Dec(500, 0)
     \/ doseMode = "perL" /\ rows[1].gPerL = Dec(5, 0) /\ volumeL = Dec(100, 0)

C3_CostIsMassTimesUnitPrice ==
  /\ screen = "direct" =>
       /\ d_results.costRM = C3_Cost(d_ingredients, d_ferts, d_doseMode, d_weightUnit, d_vol)
       /\ (d_ferts = FertTable /\ C3_ExampleDose(d_ingredients, d_doseMode, d_weightUnit, d_volumeL))
            => d_results.costRM = <<1, 1>>
  /\ screen = "alt" =>
       /\ a_results.costRM = C3_Cost(a_rows, a_ferts, a_doseMode, a_weightUnit, a_vol)
       /\ (a_ferts = FertTable /\ C3_ExampleDose(a_rows, a_doseMode, a_weightUnit, a_volumeL))
            => a_results.costRM = <<1, 1>>

\* 5 g/L in 100 L, per-L mode, costing 1
C3_Witness ==
  /\ screen = "direct"
  /\ d_ferts = FertTable
  /\ d_doseMode = "perL"
  /\ C3_ExampleDose(d_ingredients, d_doseMode, d_weightUnit, d_volumeL)
  /\ d_results.costRM = <<1, 1>>

(***************************************************************************)
(* C4.  For a positive EC scale, the EC estimate is ecScale x the sum over *)
(* the resolved rows of (grams per liter delivered x coefficient of the    *)
(* fertilizer's name); in the stock screen the grams per liter are those   *)
(* after dilution by the effective injector ratio.                         *)
(***************************************************************************)
C4_EcSum(rows, ferts, delivered(_), coefficient(_)) ==
  SumFn([i \in ResolvedRows(ferts, rows) |->
           Mul(delivered(rows[i]), coefficient(FertFor(ferts, rows[i].fertId).name))],
        ResolvedRows(ferts, rows))

C4_EcIsScaleTimesSum ==
  /\ (screen = "direct" /\ Gt(NumberOfText(d_ecScale), Zero)) =>
       d_ecEstimate = Mul(NumberOfText(d_ecScale),
                          C4_EcSum(d_ingredients, d_ferts, d_delivered, inferECk))
  /\ (screen = "stock" /\ Gt(NumberOfText(s_ecScale), Zero)) =>
       s_ecEstimate = Mul(NumberOfText(s_ecScale),
                          C4_EcSum(s_rows, s_ferts, s_delivered, Stock_inferECk))

\* stock screen, scale "2", two dosed rows of products with different coefficients
C4_Witness ==
  /\ screen = "stock"
  /\ s_ecScale = Dec(2, 0)
  /\ Len(s_rows) = 2
  /\ s_rows[1].fertId = Fert_CalciumNitrate.id
  /\ s_rows[2].fertId = Fert_CompleteMGO.id
  /\ s_ferts = FertTable
  /\ \A i \in 1..2 : Gt(s_delivered(s_rows[i]), Zero)
  /\ Gt(s_injRatio, <<1, 1>>)
  /\ Gt(s_ecEstimate, Zero)

(***************************************************************************)
(* C5.  Whenever the number typed as injector ratio is below 1 (zero,      *)
(* negative, or a fraction), the stock screen computes ppm and EC with an  *)
(* effective ratio of exactly 1.                                           *)
(***************************************************************************)
C5_RatioBelowOneIsOne ==
  (screen = "stock" /\ Lt(num(s_ratio), <<1, 1>>)) =>
    /\ s_results = Stock_results(s_rows, s_ferts, s_weightUnit, s_volStock, <<1, 1>>)
    /\ s_ecEstimate =
         Stock_ecEstimate(s_rows, s_ferts, s_weightUnit, s_volStock, <<1, 1>>, s_ecScale)

(***************************************************************************)
(* C6.  When the volume typed is zero or negative and the amounts are      *)
(* total masses (direct screen in total mode, stock screen), all 12 ppm    *)
(* and the EC estimate are exactly 0, whatever the rows.                   *)
(***************************************************************************)
C6_AllZero(ppm, ec) == ppm = [k \in Nutrients |-> <<0, 1>>] /\ ec = <<0, 1>>

C6_NoVolumeGivesZero ==
  /\ (screen = "direct" /\ d_doseMode = "total" /\ ~Gt(NumberOfText(d_volumeL), Zero)) =>
       C6_AllZero(d_results.ppm, d_ecEstimate)
  /\ (screen = "stock" /\ ~Gt(NumberOfText(s_stockVolumeL), Zero)) =>
       C6_AllZero(s_results.ppm, s_ecEstimate)

\* direct screen, total mode, volume "0", a resolved row holding 500 g
C6_Witness ==
  /\ screen = "direct"
  /\ d_doseMode = "total"
  /\ d_volumeL = Dec(0, 0)
  /\ Len(d_ingredients) >= 1
  /\ Resolves(d_ferts, d_ingredients[1].fertId)
  /\ Gt(EnteredGrams(d_ingredients[1].gTotal, d_weightUnit), Zero)

(***************************************************************************)
(* C7.  In per-L mode the concentration fed to the ppm and EC formulas is  *)
(* the entered amount in grams itself, for every vessel volume             *)
(* (MixDirectScreen.js and unnamed/part_001).                              *)
(***************************************************************************)
C7_dEntered(row) == EnteredGrams(row.gPerL, d_weightUnit)

C7_aEntered(row) == EnteredGrams(row.gPerL, a_weightUnit)

C7_PerLiterUsesEnteredAmount ==
  /\ (screen = "direct" /\ d_doseMode = "perL") =>
       /\ \A k \in Nutrients :
            d_results.ppm[k] = PpmSum(d_ingredients, d_ferts, k, C7_dEntered, EffectivePct)
       /\ d_ecEstimate = Mul(Direct_scale(d_ecScale),
                             C4_EcSum(d_ingredients, d_ferts, C7_dEntered, inferECk))
  /\ (screen = "alt" /\ a_doseMode = "perL") =>
       /\ \A k \in Nutrients :
            a_results.ppm[k] = PpmSum(a_rows, a_ferts, k, C7_aEntered, EffectivePct)
       /\ a_ecEstimate = Mul(OrElse(num(a_ecScale), <<1, 1>>),
                             C4_EcSum(a_rows, a_ferts, C7_aEntered, ecK))

(***************************************************************************)
(* C8.  In the direct and the stock screen a fertilizer's Mg percent is    *)
(* multiplied by 0.603 exactly when it is > 0 and the name contains "MgO"  *)
(* in any letter case; otherwise Mg, and always every other nutrient, is   *)
(* used as declared.  Stated on a single resolved row delivered at g.      *)
(***************************************************************************)
C8_Row(ppm, f, g) ==
  /\ \A k \in Nutrients \ {"Mg"} : ppm[k] = Mul(Mul(g, Declared(f, k)), <<10, 1>>)
  /\ IF Gt(Declared(f, "Mg"), Zero) /\ HasMgO(f.name)
     THEN ppm["Mg"] = Mul(Mul(g, Mul(Declared(f, "Mg"), <<603, 1000>>)), <<10, 1>>)
     ELSE ppm["Mg"] = Mul(Mul(g, Declared(f, "Mg")), <<10, 1>>)

C8_MgOFactorIffNamedMgO ==
  /\ (screen = "direct" /\ Len(d_ingredients) = 1
        /\ Resolves(d_ferts, d_ingredients[1].fertId)) =>
       C8_Row(d_results.ppm, FertFor(d_ferts, d_ingredients[1].fertId),
              d_delivered(d_ingredients[1]))
  /\ (screen = "stock" /\ Len(s_rows) = 1 /\ Resolves(s_ferts, s_rows[1].fertId)) =>
       C8_Row(s_results.ppm, FertFor(s_ferts, s_rows[1].fertId), s_delivered(s_rows[1]))

\* one dosed row of the product named "Complete MGO Mix" (Mg 3 %)
C8_Witness ==
  /\ screen = "direct"
  /\ Len(d_ingredients) = 1
  /\ d_ferts = FertTable
  /\ d_ingredients[1].fertId = Fert_CompleteMGO.id
  /\ d_delivered(d_ingredients[1]) = <<5, 1>>
  /\ d_results.ppm["Mg"] = <<1809, 20>>

(***************************************************************************)
(* C9.  In the AsyncStorage-based mixer (totals), "Krista MgS" with        *)
(* Mg = 10 at 1 g/L yields ppm Mg = 100: no 0.603 factor for a name        *)
(* without "MgO".                                                          *)
(***************************************************************************)
C9_KristaMgSGives100 ==
  (/\ screen = "legacy"
   /\ Len(l_rows) = 1
   /\ fertByRow(l_allFerts, l_rows[1]) # <<>>
   /\ l_rows[1].name = Name_KristaMgS
   /\ ~HasMgO(l_rows[1].name)
   /\ effectiveGPerL(l_rows[1], l_doseMode, l_vol) = <<1, 1>>)
  => l_totals.ppm["Mg"] = <<100, 1>>

(***************************************************************************)
(* C10.  For a single row, the same mass entered as x with unit g or as    *)
(* x/1000 with unit kg, everything else equal, gives the same ppm for all  *)
(* 12 nutrients and the same cost, in the direct screen (both dose modes)  *)
(* and in the stock screen.                                                *)
(***************************************************************************)
\* the numeral of x/1000, for the numeral of x
C10_Thousandth(text) == Dec(text.m, text.e + 3)

C10_GramsOrKilograms ==
  /\ (screen = "direct" /\ Len(d_ingredients) = 1 /\ d_weightUnit = "g") =>
       LET row == d_ingredients[1]
           inKg == IF d_doseMode = "total"
                   THEN [row EXCEPT !.gTotal = C10_Thousandth(@)]
                   ELSE [row EXCEPT !.gPerL = C10_Thousandth(@)]
       IN  (IF d_doseMode = "total" THEN row.gTotal.k ELSE row.gPerL.k) = "dec" =>
             Direct_results(<<inKg>>, d_ferts, d_doseMode, d_vol, Direct_unitFactor("kg"))
               = d_results
  /\ (screen = "stock" /\ Len(s_rows) = 1 /\ s_weightUnit = "g"
        /\ s_rows[1].gramsTotal.k = "dec") =>
       Stock_results(<<[s_rows[1] EXCEPT !.gramsTotal = C10_Thousandth(@)]>>,
                     s_ferts, "kg", s_volStock, s_injRatio)
         = s_results

\* stock screen, one dosed and priced row in grams
C10_Witness ==
  /\ screen = "stock"
  /\ Len(s_rows) = 1
  /\ s_weightUnit = "g"
  /\ s_rows[1].gramsTotal = Dec(2000, 0)
  /\ s_rows[1].fertId = Fert_CalciumNitrate.id
  /\ s_ferts = FertTable
  /\ Gt(s_results.ppm["N"], Zero)
  /\ Gt(s_results.costRM, Zero)

(***************************************************************************)
(* The screens over fertilizer records with every kind of price and bag    *)
(* size.  The list holds the priced Calcium Nitrate record and one record  *)
(* whose price_per_bag and bag_size_kg are drawn from PriceValues and      *)
(* BagValues; two rows are on the screen.                                  *)
(***************************************************************************)
PriceValues == {JNull, JUndef, JNum(0, 1), JNum(-1, 1), JNum(50, 1)}

BagValues == {JNull, JUndef, JNum(0, 1), JNum(-1, 1), JNum(25, 1)}

Priced(f, price, bag) == [f EXCEPT !.price_per_bag = price, !.bag_size_kg = bag]

Prices_Init ==
  /\ screen \in {"direct", "stock"}
  /\ \E p \in PriceValues : \E b \in BagValues :
       LET list == <<Fert_CalciumNitrate, Priced(Fert_CompleteMGO, p, b)>>
       IN  /\ d_ferts = (IF screen = "direct" THEN list ELSE <<>>)
           /\ s_ferts = (IF screen = "stock" THEN list ELSE <<>>)
  /\ d_ingredients = (IF screen = "direct" THEN <<BlankRow, BlankRow>> ELSE <<>>)
  /\ s_rows = (IF screen = "stock" THEN <<Stock_BlankRow, Stock_BlankRow>> ELSE <<>>)
  /\ d_weightUnit = "g"
  /\ d_volumeL = Dec(100, 0)
  /\ d_doseMode = "total"
  /\ d_ecScale = Dec(110, 2)
  /\ s_stockVolumeL = Dec(100, 0)
  /\ s_ratio = Dec(200, 0)
  /\ s_weightUnit = "g"
  /\ s_ecScale = Dec(110, 2)
  /\ Alt_Init
  /\ Legacy_Init
  /\ Job_Init
  /\ Backend_Init

Prices_Next ==
  \/ Direct_setVolumeL
  \/ Direct_setDoseMode
  \/ Direct_selectFert
  \/ Direct_changeAmount
  \/ Stock_setStockVolumeL
  \/ Stock_switchUnit
  \/ Stock_selectFert
  \/ Stock_changeAmount

SpecPrices == Prices_Init /\ [][Prices_Next]_vars

\* the rows without row i
WithoutRow(rows, i) ==
  [j \in 1..(Len(rows) - 1) |-> IF j < i THEN rows[j] ELSE rows[j + 1]]

\* the list with a valid price and bag size on the fertilizer of the given id
WithValidPrice(ferts, id) ==
  [j \in 1..Len(ferts) |->
     IF ferts[j].id = id THEN Priced(ferts[j], JNum(50, 1), JNum(25, 1)) ELSE ferts[j]]

\* price_per_bag or bag_size_kg is null, missing, zero or negative
Unpriced(f) ==
  \/ ~Gt(DeclaredAmount(f.price_per_bag), Zero)
  \/ ~Gt(DeclaredAmount(f.bag_size_kg), Zero)

(***************************************************************************)
(* C11.  A resolved row whose fertilizer has price_per_bag or bag_size_kg  *)
(* null, missing, zero or negative adds exactly 0 to the batch cost (the   *)
(* cost is that of the other rows), and the 12 ppm are what they are with  *)
(* a valid price and bag size on that fertilizer (direct and stock         *)
(* screen).                                                                *)
(***************************************************************************)
C11_UnpricedRowCostsNothing ==
  /\ screen = "direct" =>
       \A i \in ResolvedRows(d_ferts, d_ingredients) :
         Unpriced(FertFor(d_ferts, d_ingredients[i].fertId)) =>
           /\ d_results.costRM =
                Direct_results(WithoutRow(d_ingredients, i), d_ferts, d_doseMode,
                               d_vol, d_unitFactor).costRM
           /\ d_results.ppm =
                Direct_results(d_ingredients,
                               WithValidPrice(d_ferts, d_ingredients[i].fertId),
                               d_doseMode, d_vol, d_unitFactor).ppm
  /\ screen = "stock" =>
       \A i \in ResolvedRows(s_ferts, s_rows) :
         Unpriced(FertFor(s_ferts, s_rows[i].fertId)) =>
           /\ s_results.costRM =
                Stock_results(WithoutRow(s_rows, i), s_ferts, s_weightUnit,
                              s_volStock, s_injRatio).costRM
           /\ s_results.ppm =
                Stock_results(s_rows, WithValidPrice(s_ferts, s_rows[i].fertId),
                              s_weightUnit, s_volStock, s_injRatio).ppm

\* a dosed row of a product with price 50 and bag size 0, next to a dosed
\* row of the priced product: the cost is that of the priced row alone
C11_Witness ==
  /\ screen = "direct"
  /\ d_doseMode = "total"
  /\ d_ingredients[1].fertId = Fert_CalciumNitrate.id
  /\ d_ingredients[2].fertId = Fert_CompleteMGO.id
  /\ d_ferts[2].price_per_bag = JNum(50, 1)
  /\ d_ferts[2].bag_size_kg = JNum(0, 1)
  /\ d_ingredients[1].gTotal = Dec(500, 0)
  /\ d_ingredients[2].gTotal = Dec(500, 0)
  /\ d_results.costRM = <<1, 1>>
  /\ Gt(d_results.ppm["Mg"], Zero)

(***************************************************************************)
(* C12.  In the stock screen the batch cost is the sum, over the resolved  *)
(* rows whose fertilizer has price > 0 and bag size > 0, of (grams added   *)
(* to the stock tank) x price / (bag size x 1000), whatever the injector   *)
(* ratio and the stock-tank volume.                                        *)
(***************************************************************************)
C12_Cost(rows, ferts, unit) ==
  SumFn([i \in C3_PricedRows(rows, ferts) |->
           Mul(EnteredGrams(rows[i].gramsTotal, unit),
               Div(DeclaredAmount(FertFor(ferts, rows[i].fertId).price_per_bag),
                   Mul(DeclaredAmount(FertFor(ferts, rows[i].fertId).bag_size_kg),
                       <<1000, 1>>)))],
        C3_PricedRows(rows, ferts))

C12_StockCostIsMassAdded ==
  screen = "stock" => s_results.costRM = C12_Cost(s_rows, s_ferts, s_weightUnit)

(***************************************************************************)
(* C13.  A row whose fertId matches no record of the loaded list (never    *)
(* selected, or the record deleted from the list) adds nothing to ppm, EC  *)
(* or cost: the results are exactly those of the rows without it (direct   *)
(* and stock screen).  The list ranges over the loaded list and the        *)
(* loaded list with one record deleted.                                    *)
(***************************************************************************)
\* the loaded list, and the loaded list with one record deleted
C13_Lists(ferts) ==
  {ferts} \cup {WithoutRow(ferts, j) : j \in 1..Len(ferts)}

C13_UnresolvedRowIsSkipped ==
  /\ screen = "direct" =>
       \A L \in C13_Lists(d_ferts) : \A i \in 1..Len(d_ingredients) :
         ~Resolves(L, d_ingredients[i].fertId) =>
           /\ Direct_results(d_ingredients, L, d_doseMode, d_vol, d_unitFactor)
                = Direct_results(WithoutRow(d_ingredients, i), L, d_doseMode, d_vol,
                                 d_unitFactor)
           /\ Direct_ecEstimate(d_ingredients, L, d_doseMode, d_vol, d_ecScale,
                                d_unitFactor)
                = Direct_ecEstimate(WithoutRow(d_ingredients, i), L, d_doseMode, d_vol,
                                    d_ecScale, d_unitFactor)
  /\ screen = "stock" =>
       \A L \in C13_Lists(s_ferts) : \A i \in 1..Len(s_rows) :
         ~Resolves(L, s_rows[i].fertId) =>
           /\ Stock_results(s_rows, L, s_weightUnit, s_volStock, s_injRatio)
                = Stock_results(WithoutRow(s_rows, i), L, s_weightUnit, s_volStock,
                                s_injRatio)
           /\ Stock_ecEstimate(s_rows, L, s_weightUnit, s_volStock, s_injRatio, s_ecScale)
                = Stock_ecEstimate(WithoutRow(s_rows, i), L, s_weightUnit, s_volStock,
                                   s_injRatio, s_ecScale)

\* a never-selected row holding 500 g before a dosed, resolved row
C13_Witness ==
  /\ screen = "direct"
  /\ d_ferts = FertTable
  /\ Len(d_ingredients) = 2
  /\ d_ingredients[1].fertId = NullId
  /\ d_ingredients[1].gTotal = Dec(500, 0)
  /\ d_doseMode = "total"
  /\ d_ingredients[2].fertId = Fert_CompleteMGO.id
  /\ Gt(d_results.ppm["N"], Zero)
  /\ Gt(d_ecEstimate, Zero)

(***************************************************************************)
(* The screens over every kind of text in their numeric fields.  One row   *)
(* of the priced Calcium Nitrate record is on the screen; the row amounts, *)
(* the volume, the injector ratio and the EC scale hold any text of        *)
(* FieldTexts: nothing, a non-numeric text, "Infinity", a negative number, *)
(* zero, a positive number.  The steps are the handlers of those fields.   *)
(***************************************************************************)
FieldTexts == {TxtEmpty, TxtJunk, TxtInfinity, Dec(-5, 0), Dec(0, 0), Dec(500, 0)}

Texts_Row == [BlankRow EXCEPT !.fertId = Fert_CalciumNitrate.id,
                              !.name = Fert_CalciumNitrate.name]

Texts_StockRow == [Stock_BlankRow EXCEPT !.fertId = Fert_CalciumNitrate.id,
                                         !.name = Fert_CalciumNitrate.name]

Texts_Init ==
  /\ screen \in {"direct", "stock", "alt"}
  /\ d_weightUnit = "g"
  /\ d_doseMode = "total"
  /\ s_weightUnit = "g"
  /\ a_weightUnit = "g"
  /\ a_doseMode = "total"
  /\ IF screen = "direct"
     THEN /\ d_ferts = FertTable
          /\ d_volumeL \in FieldTexts
          /\ d_ecScale \in FieldTexts
          /\ \E t \in FieldTexts : \E p \in FieldTexts :
               d_ingredients = <<[Texts_Row EXCEPT !.gTotal = t, !.gPerL = p]>>
     ELSE /\ d_ferts = <<>>
          /\ d_volumeL = Dec(100, 0)
          /\ d_ecScale = Dec(110, 2)
          /\ d_ingredients = <<>>
  /\ IF screen = "stock"
     THEN /\ s_ferts = FertTable
          /\ s_stockVolumeL \in FieldTexts
          /\ s_ratio \in FieldTexts
          /\ s_ecScale \in FieldTexts
          /\ \E t \in FieldTexts : s_rows = <<[Texts_StockRow EXCEPT !.gramsTotal = t]>>
     ELSE /\ s_ferts = <<>>
          /\ s_stockVolumeL = Dec(100, 0)
          /\ s_ratio = Dec(200, 0)
          /\ s_ecScale = Dec(110, 2)
          /\ s_rows = <<>>
  /\ IF screen = "alt"
     THEN /\ a_ferts = FertTable
          /\ a_volumeL \in FieldTexts
          /\ a_ecScale \in FieldTexts
          /\ \E t \in FieldTexts : \E p \in FieldTexts :
               a_rows = <<[Texts_Row EXCEPT !.gTotal = t, !.gPerL = p]>>
     ELSE /\ a_ferts = <<>>
          /\ a_volumeL = Dec(100, 0)
          /\ a_ecScale = Dec(110, 2)
          /\ a_rows = <<>>
  /\ Legacy_Init
  /\ Job_Init
  /\ Backend_Init

Texts_Next ==
  \/ Direct_setVolumeL
  \/ Direct_setDoseMode
  \/ Direct_setWeightUnit
  \/ Direct_setEcScale
  \/ Direct_changeAmount
  \/ Stock_setStockVolumeL
  \/ Stock_setRatio
  \/ Stock_setEcScale
  \/ Stock_switchUnit
  \/ Stock_changeAmount
  \/ Alt_setVolumeL
  \/ Alt_setDoseMode
  \/ Alt_setEcScale
  \/ Alt_switchUnit
  \/ Alt_changeAmount

SpecTexts == Texts_Init /\ [][Texts_Next]_vars

\* every ppm value, the cost and the EC estimate are finite numbers
AllFinite(ppm, cost, ec) ==
  /\ \A k \in Nutrients : NumberIsFinite(ppm[k])
  /\ NumberIsFinite(cost)
  /\ NumberIsFinite(ec)

\* a text that is no finite numeral, read as nothing entered
AsNothingEntered(text) == IF text.k \in {"junk", "inf"} THEN TxtEmpty ELSE text

(***************************************************************************)
(* C14.  Whatever text the numeric fields hold (row amount, volume,        *)
(* injector ratio, EC scale), a non-numeric text and "Infinity" act as an  *)
(* empty field, and every ppm value, the EC estimate and the cost are      *)
(* finite numbers (direct and stock screen).                               *)
(***************************************************************************)
C14_ResultsAreFinite ==
  /\ screen = "direct" =>
       /\ AllFinite(d_results.ppm, d_results.costRM, d_ecEstimate)
       /\ d_results =
            Direct_results(
              [i \in 1..Len(d_ingredients) |->
                 [d_ingredients[i] EXCEPT !.gTotal = AsNothingEntered(@),
                                          !.gPerL = AsNothingEntered(@)]],
              d_ferts, d_doseMode, Direct_vol(AsNothingEntered(d_volumeL)), d_unitFactor)
       /\ d_ecEstimate =
            Direct_ecEstimate(d_ingredients, d_ferts, d_doseMode, d_vol,
                              AsNothingEntered(d_ecScale), d_unitFactor)
  /\ screen = "stock" =>
       /\ AllFinite(s_results.ppm, s_results.costRM, s_ecEstimate)
       /\ s_results =
            Stock_results(
              [i \in 1..Len(s_rows) |->
                 [s_rows[i] EXCEPT !.gramsTotal = AsNothingEntered(@)]],
              s_ferts, s_weightUnit, Stock_volStock(AsNothingEntered(s_stockVolumeL)),
              Stock_injRatio(AsNothingEntered(s_ratio)))
       /\ s_ecEstimate =
            Stock_ecEstimate(s_rows, s_ferts, s_weightUnit, s_volStock, s_injRatio,
                             AsNothingEntered(s_ecScale))

(***************************************************************************)
(* C15.  Whatever text the fields hold, negative numbers included, the     *)
(* per-liter concentration of each row, every ppm value, the EC estimate   *)
(* and the batch cost are >= 0 (direct and stock screen).                  *)
(***************************************************************************)
NonNegative(x) == x = Zero \/ Gt(x, Zero)

C15_NothingIsNegative ==
  /\ screen = "direct" =>
       /\ \A i \in 1..Len(d_ingredients) :
            NonNegative(Direct_gPerL(Direct_gramsTotal(d_ingredients[i], d_doseMode,
                                                       d_vol, d_unitFactor), d_vol))
       /\ \A k \in Nutrients : NonNegative(d_results.ppm[k])
       /\ NonNegative(d_results.costRM)
       /\ NonNegative(d_ecEstimate)
  /\ screen = "stock" =>
       /\ \A i \in 1..Len(s_rows) :
            Gt(s_volStock, Zero) =>
              NonNegative(Stock_gDripPerL(s_rows[i], s_weightUnit, s_volStock, s_injRatio))
       /\ \A k \in Nutrients : NonNegative(s_results.ppm[k])
       /\ NonNegative(s_results.costRM)
       /\ NonNegative(s_ecEstimate)

(***************************************************************************)
(* The screens over fertilizer names.  The loaded list holds one record    *)
(* whose name is drawn from FertNames: names of every pattern group, in    *)
(* lower, upper and mixed case, names matching several groups, a name      *)
(* matching none and the empty name (a missing name reads as "").  One row *)
(* of that record is on the screen.                                        *)
(***************************************************************************)
FertNames ==
  {<<>>,
   <<"U", "r", "e", "a">>,
   <<"C", "a", "l", "c", "i", "n", "i", "t">>,
   <<"C", "A", "L", "C", "I", "U", "M", " ", "N", "I", "T", "R", "A", "T", "E">>,
   <<"Y", "a", "r", "a", "L", "i", "v", "a", " ", "N", "i", "t", "r", "a", "b", "o", "r">>,
   <<"K", "r", "i", "s", "t", "a", " ", "K">>,
   <<"K", "N", "O", "3">>,
   <<"P", "o", "t", "a", "s", "s", "i", "u", "m", " ", "N", "i", "t", "r", "a", "t", "e">>,
   <<"M", "K", "P">>,
   <<"M", "o", "n", "o", " ", "P", "o", "t", "a", "s", "s", "i", "u", "m", " ", "P", "h", "o", "s", "p", "h", "a", "t", "e">>,
   <<"K", "H", "2", "P", "O", "4">>,
   <<"S", "O", "P">>,
   <<"P", "o", "t", "a", "s", "s", "i", "u", "m", " ", "S", "u", "l", "p", "h", "a", "t", "e">>,
   <<"P", "o", "t", "a", "s", "s", "i", "u", "m", " ", "s", "u", "l", "f", "a", "t", "e">>,
   <<"I", "s", "o", "p", "r", "o", "p", "y", "l">>,
   <<"M", "a", "g", "n", "e", "s", "i", "u", "m", " ", "S", "u", "l", "p", "h", "a", "t", "e">>,
   <<"E", "p", "s", "o", "m", " ", "S", "a", "l", "t">>,
   <<"K", "r", "i", "s", "t", "a", " ", "M", "g", "S">>,
   <<"M", "g", "S", "O", "4">>,
   <<"F", "e", "r", "t", "i", "c", "a", "r", "e">>,
   <<"K", "r", "i", "s", "t", "a", "l", "o", "n">>,
   <<"N", "P", "K", " ", "1", "5", "-", "1", "5", "-", "1", "5">>,
   <<"C", "o", "m", "p", "l", "e", "t", "e", " ", "M", "G", "O", " ", "M", "i", "x">>,
   <<"M", "a", "g", "n", "e", "s", "i", "u", "m", " ", "C", "o", "m", "p", "l", "e", "t", "e">>,
   <<"M", "K", "P", " ", "S", "O", "P">>,
   <<"S", "O", "P", " ", "E", "p", "s", "o", "m">>,
   <<"C", "a", "l", "c", "i", "u", "m", " ", "N", "i", "t", "r", "a", "t", "e", " ", "N", "P", "K">>,
   <<"K", "r", "i", "s", "t", "a", " ", "K", " ", "M", "K", "P">>}

Named(f, name) == [f EXCEPT !.name = name]

Names_Init ==
  /\ screen \in {"direct", "stock", "alt"}
  /\ \E n \in FertNames :
       LET f == Named(Fert_CalciumNitrate, n)
           list == <<f>>
       IN  /\ d_ferts = (IF screen = "direct" THEN list ELSE <<>>)
           /\ s_ferts = (IF screen = "stock" THEN list ELSE <<>>)
           /\ a_ferts = (IF screen = "alt" THEN list ELSE <<>>)
           /\ d_ingredients = (IF screen = "direct"
                               THEN <<[BlankRow EXCEPT !.fertId = f.id, !.name = n]>>
                               ELSE <<>>)
           /\ s_rows = (IF screen = "stock"
                        THEN <<[Stock_BlankRow EXCEPT !.fertId = f.id, !.name = n]>>
                        ELSE <<>>)
           /\ a_rows = (IF screen = "alt"
                        THEN <<[BlankRow EXCEPT !.fertId = f.id, !.name = n]>>
                        ELSE <<>>)
  /\ d_weightUnit = "g"
  /\ d_volumeL = Dec(100, 0)
  /\ d_doseMode = "total"
  /\ d_ecScale = Dec(110, 2)
  /\ s_stockVolumeL = Dec(100, 0)
  /\ s_ratio = Dec(200, 0)
  /\ s_weightUnit = "g"
  /\ s_ecScale = Dec(110, 2)
  /\ a_volumeL = Dec(100, 0)
  /\ a_doseMode = "total"
  /\ a_weightUnit = "g"
  /\ a_ecScale = Dec(110, 2)
  /\ Legacy_Init
  /\ Job_Init
  /\ Backend_Init

Names_Next ==
  \/ Direct_setEcScale
  \/ Direct_changeAmount
  \/ Stock_setEcScale
  \/ Stock_changeAmount
  \/ Alt_setEcScale
  \/ Alt_changeAmount

SpecNames == Names_Init /\ [][Names_Next]_vars

\* the names of the records loaded in the mounted screen
LoadedNames ==
  {d_ferts[j].name : j \in 1..Len(d_ferts)} \cup {s_ferts[j].name : j \in 1..Len(s_ferts)}
    \cup {a_ferts[j].name : j \in 1..Len(a_ferts)}

\* the pattern groups in their fixed order, each with its coefficient
C16_Groups ==
  <<
    [pats |-> {<<"c", "a", "l", "c", "i", "u", "m", " ", "n", "i", "t", "r", "a", "t", "e">>,
              <<"c", "a", "l", "c", "i", "n", "i", "t">>,
              <<"n", "i", "t", "r", "a", "b", "o", "r">>},
     k |-> <<120, 100>>],
    [pats |-> {<<"k", "r", "i", "s", "t", "a", " ", "k">>,
              <<"p", "o", "t", "a", "s", "s", "i", "u", "m", " ", "n", "i", "t", "r", "a", "t", "e">>,
              <<"k", "n", "o", "3">>},
     k |-> <<110, 100>>],
    [pats |-> {<<"m", "k", "p">>,
              <<"m", "o", "n", "o", " ", "p", "o", "t", "a", "s", "s", "i", "u", "m", " ", "p", "h", "o", "s", "p", "h", "a", "t", "e">>,
              <<"k", "h", "2", "p", "o", "4">>},
     k |-> <<90, 100>>],
    [pats |-> {<<"s", "o", "p">>,
              <<"p", "o", "t", "a", "s", "s", "i", "u", "m", " ", "s", "u", "l", "p", "h">>,
              <<"p", "o", "t", "a", "s", "s", "i", "u", "m", " ", "s", "u", "l", "f">>},
     k |-> <<80, 100>>],
    [pats |-> {<<"m", "a", "g", "n", "e", "s", "i", "u", "m">>,
              <<"e", "p", "s", "o", "m">>,
              <<"k", "r", "i", "s", "t", "a", " ", "m", "g", "s">>,
              <<"m", "g", "s", "o", "4">>},
     k |-> <<100, 100>>],
    [pats |-> {<<"f", "e", "r", "t", "i", "c", "a", "r", "e">>,
              <<"k", "r", "i", "s", "t", "a", "l", "o", "n">>,
              <<"n", "p", "k">>,
              <<"c", "o", "m", "p", "l", "e", "t", "e">>},
     k |-> <<110, 100>>]>>

\* the name with its upper-case letters replaced by the lower-case ones
C16_LowerCased(name) ==
  LET upper == <<"A", "B", "C", "D", "E", "F", "G", "H", "I", "J", "K", "L", "M",
                 "N", "O", "P", "Q", "R", "S", "T", "U", "V", "W", "X", "Y", "Z">>
      lower == <<"a", "b", "c", "d", "e", "f", "g", "h", "i", "j", "k", "l", "m",
                 "n", "o", "p", "q", "r", "s", "t", "u", "v", "w", "x", "y", "z">>
  IN  [i \in 1..Len(name) |->
         IF \E j \in 1..26 : upper[j] = name[i]
         THEN lower[CHOOSE j \in 1..26 : upper[j] = name[i]]
         ELSE name[i]]

\* the groups of which some pattern occurs in the lower-cased name
C16_Matching(name) ==
  {g \in 1..Len(C16_Groups) :
     \E p \in C16_Groups[g].pats :
       \E i \in 1..(Len(name) - Len(p) + 1) :
         \A j \in 1..Len(p) : C16_LowerCased(name)[i + j - 1] = p[j]}

\* the coefficient of the earliest matching group, 1.00 when none matches
C16_Coefficient(name) ==
  IF C16_Matching(name) = {} THEN <<1, 1>>
  ELSE LET g == CHOOSE g \in C16_Matching(name) : \A h \in C16_Matching(name) : g <= h
       IN  Norm(C16_Groups[g].k[1], C16_Groups[g].k[2])

(***************************************************************************)
(* C16.  inferECk (MixDirectScreen.js) returns the coefficient of the      *)
(* first pattern group, in the fixed order 1.20, 1.10, 0.90, 0.80, 1.00,   *)
(* 1.10, of which a pattern occurs in the lower-cased fertilizer name; a   *)
(* name matching several groups gets the earliest group's value and a      *)
(* name matching none, or an empty name, gets 1.00; the EC estimate of a   *)
(* single row uses that coefficient.                                       *)
(***************************************************************************)
C16_FirstMatchingGroupWins ==
  /\ \A n \in LoadedNames : inferECk(n) = C16_Coefficient(n)
  /\ (screen = "direct" /\ Len(d_ingredients) = 1 /\ Len(d_ferts) = 1
        /\ Resolves(d_ferts, d_ingredients[1].fertId)) =>
       d_ecEstimate = Mul(Mul(d_delivered(d_ingredients[1]),
                              C16_Coefficient(d_ferts[1].name)),
                          Direct_scale(d_ecScale))

\* "Magnesium Complete" matches the magnesium group (1.00) and the blends
\* group (1.10): 5 g/L at scale 1.10 gives 5.5
C16_Witness ==
  /\ screen = "direct"
  /\ Len(d_ferts) = 1
  /\ d_ferts[1].name = <<"M", "a", "g", "n", "e", "s", "i", "u", "m", " ", "C", "o", "m", "p", "l", "e", "t", "e">>
  /\ C16_Matching(d_ferts[1].name) = {5, 6}
  /\ d_ingredients[1].gTotal = Dec(500, 0)
  /\ d_ecScale = Dec(110, 2)
  /\ d_ecEstimate = <<11, 2>>

(***************************************************************************)
(* C17.  The four EC coefficient lookups (inferECk of MixDirectScreen.js,  *)
(* inferECk of MixStockScreen.js, ecK of unnamed/part_001, inferECk of     *)
(* unnamed/part_002) return the same coefficient for every fertilizer      *)
(* name.                                                                   *)
(***************************************************************************)
C17_LookupsAgree ==
  \A n \in LoadedNames :
    /\ Stock_inferECk(n) = inferECk(n)
    /\ ecK(n) = inferECk(n)
    /\ Part2_inferECk(n) = inferECk(n)

\* an upper-case name of the first group, dosed in the part_001 screen
C17_Witness ==
  /\ screen = "alt"
  /\ Len(a_ferts) = 1
  /\ a_ferts[1].name = <<"C", "A", "L", "C", "I", "U", "M", " ", "N", "I", "T", "R", "A", "T", "E">>
  /\ ecK(a_ferts[1].name) = <<6, 5>>
  /\ Gt(a_ecEstimate, Zero)

(***************************************************************************)
(* C19.  With injector ratio 1 and a stock volume > 0, the stock screen    *)
(* shows exactly the ppm, the cost and the EC estimate the direct screen   *)
(* computes in total mode for the same rows, fertilizers, weight unit and  *)
(* EC scale, with the vessel volume equal to the stock volume.             *)
(***************************************************************************)
\* the rows of the stock screen as rows of the direct screen, amounts as totals
C19_AsDirectRows(rows) ==
  [i \in 1..Len(rows) |->
     [fertId |-> rows[i].fertId, name |-> rows[i].name,
      gTotal |-> rows[i].gramsTotal, gPerL |-> TxtEmpty]]

C19_StockAtRatioOneIsDirect ==
  (screen = "stock" /\ s_injRatio = <<1, 1>> /\ Gt(s_volStock, Zero)) =>
    /\ s_results =
         Direct_results(C19_AsDirectRows(s_rows), s_ferts, "total",
                        Direct_vol(s_stockVolumeL), Direct_unitFactor(s_weightUnit))
    /\ s_ecEstimate =
         Direct_ecEstimate(C19_AsDirectRows(s_rows), s_ferts, "total",
                           Direct_vol(s_stockVolumeL), s_ecScale,
                           Direct_unitFactor(s_weightUnit))

(***************************************************************************)
(* C20.  In the stock screen and in the direct mixer of unnamed/part_001,  *)
(* switchUnit(next) with next different from the active unit converts the  *)
(* amounts: every row's amount in grams is the same after the switch as    *)
(* before, so ppm, EC estimate and cost are unchanged; switching back      *)
(* returns every numeric amount to its original text; an amount that is    *)
(* empty, zero or not a number keeps its text.                             *)
(***************************************************************************)
\* a step of the stock screen that changes the weight unit
C20_StockSwitch ==
  (s_weightUnit' # s_weightUnit) =>
    /\ Len(s_rows') = Len(s_rows)
    /\ \A i \in 1..Len(s_rows) :
         /\ Stock_toGrams(s_rows'[i].gramsTotal, s_weightUnit') =
              Stock_toGrams(s_rows[i].gramsTotal, s_weightUnit)
         /\ Stock_switchText(s_rows'[i].gramsTotal, s_weightUnit) = s_rows[i].gramsTotal
         /\ ~Truthy(num(s_rows[i].gramsTotal)) =>
              s_rows'[i].gramsTotal = s_rows[i].gramsTotal
    /\ Stock_results(s_rows', s_ferts', s_weightUnit',
                     Stock_volStock(s_stockVolumeL'), Stock_injRatio(s_ratio')) = s_results
    /\ Stock_ecEstimate(s_rows', s_ferts', s_weightUnit', Stock_volStock(s_stockVolumeL'),
                        Stock_injRatio(s_ratio'), s_ecScale') = s_ecEstimate

\* a step of the part_001 screen that changes the weight unit
C20_AltSwitch ==
  (a_weightUnit' # a_weightUnit) =>
    /\ Len(a_rows') = Len(a_rows)
    /\ \A i \in 1..Len(a_rows) :
         /\ Alt_toGrams(a_rows'[i].gTotal, a_weightUnit') =
              Alt_toGrams(a_rows[i].gTotal, a_weightUnit)
         /\ Alt_toGrams(a_rows'[i].gPerL, a_weightUnit') =
              Alt_toGrams(a_rows[i].gPerL, a_weightUnit)
         /\ Alt_switchText(a_rows'[i].gTotal, a_weightUnit) = a_rows[i].gTotal
         /\ Alt_switchText(a_rows'[i].gPerL, a_weightUnit) = a_rows[i].gPerL
         /\ ~Truthy(num(a_rows[i].gTotal)) => a_rows'[i].gTotal = a_rows[i].gTotal
         /\ ~Truthy(num(a_rows[i].gPerL)) => a_rows'[i].gPerL = a_rows[i].gPerL
    /\ Alt_results(a_rows', a_ferts', a_doseMode',
                   MathMax(Zero, num(a_volumeL')), a_weightUnit') = a_results
    /\ Alt_ecEstimate(a_rows', a_ferts', a_doseMode', MathMax(Zero, num(a_volumeL')),
                      a_weightUnit', a_ecScale') = a_ecEstimate

C21_ToggleKeepsMass ==
  [][(d_weightUnit' # d_weightUnit) =>
       /\ \A i \in 1..Len(d_ingredients) :
            Direct_gramsTotal(d_ingredients'[i], d_doseMode', Direct_vol(d_volumeL'),
                              Direct_unitFactor(d_weightUnit')) =
              Direct_gramsTotal(d_ingredients[i], d_doseMode, d_vol, d_unitFactor)
       /\ Direct_results(d_ingredients', d_ferts', d_doseMode', Direct_vol(d_volumeL'),
                         Direct_unitFactor(d_weightUnit')) = d_results
       /\ Direct_ecEstimate(d_ingredients', d_ferts', d_doseMode', Direct_vol(d_volumeL'),
                            d_ecScale', Direct_unitFactor(d_weightUnit')) = d_ecEstimate]_vars

(***************************************************************************)
(* Saving recipes: a mixer with the fertilizers loaded, a                  *)
(* Calcium Nitrate row and a row without a fertilizer, a vessel of 100 L   *)
(* or without volume, a user signed in or not.                             *)
(***************************************************************************)
Recipes_Init ==
  /\ screen \in {"direct", "stock", "alt"}
  /\ user \in {"u1", NoUser}
  /\ d_weightUnit = "g"
  /\ d_doseMode = "total"
  /\ d_ecScale = Dec(110, 2)
  /\ s_ratio = Dec(200, 0)
  /\ s_weightUnit = "g"
  /\ s_ecScale = Dec(110, 2)
  /\ a_doseMode = "total"
  /\ a_weightUnit = "g"
  /\ a_ecScale = Dec(110, 2)
  /\ \E v \in {Dec(100, 0), Dec(0, 0)} :
       /\ d_volumeL = (IF screen = "direct" THEN v ELSE Dec(100, 0))
       /\ s_stockVolumeL = (IF screen = "stock" THEN v ELSE Dec(100, 0))
       /\ a_volumeL = (IF screen = "alt" THEN v ELSE Dec(100, 0))
  /\ d_ferts = (IF screen = "direct" THEN FertTable ELSE <<>>)
  /\ s_ferts = (IF screen = "stock" THEN FertTable ELSE <<>>)
  /\ a_ferts = (IF screen = "alt" THEN FertTable ELSE <<>>)
  /\ d_ingredients = (IF screen = "direct" THEN <<Texts_Row, BlankRow>> ELSE <<>>)
  /\ s_rows = (IF screen = "stock" THEN <<Texts_StockRow, Stock_BlankRow>> ELSE <<>>)
  /\ a_rows = (IF screen = "alt" THEN <<Texts_Row, BlankRow>> ELSE <<>>)
  /\ Legacy_Init
  /\ Job_Init
  /\ db_recipes = <<>>
  /\ route_loadRecipeId = NullId
  /\ saves = <<>>
  /\ loads = <<>>
  /\ fetches = <<>>
  /\ seeds = <<>>
  /\ db_fertilizers = <<>>
  /\ imports = <<>>

Save_Next ==
  \/ Direct_setDoseMode
  \/ Direct_setWeightUnit
  \/ Direct_changeAmount
  \/ Direct_saveRecipe
  \/ Stock_setRatio
  \/ Stock_switchUnit
  \/ Stock_changeAmount
  \/ Stock_saveRecipe
  \/ Alt_setDoseMode
  \/ Alt_switchUnit
  \/ Alt_changeAmount
  \/ Alt_saveRecipe
  \/ saveRecipe_getUser
  \/ saveRecipe_insert
  \/ saveRecipe_error

SpecSave == Recipes_Init /\ [][Save_Next]_vars

(***************************************************************************)
(* Loading recipes: a signed-in user, a mixer with the fertilizers loaded  *)
(* and one Calcium Nitrate row holding 500 (total), 5 (per liter) or, in   *)
(* the stock screen, 2000 in 100 L; recipes are saved, the app is started  *)
(* again and the saved recipes are opened from the list.                   *)
(***************************************************************************)
Load_Init ==
  /\ screen \in {"direct", "stock"}
  /\ user = "u1"
  /\ d_weightUnit = "g"
  /\ d_volumeL = Dec(100, 0)
  /\ d_doseMode = "total"
  /\ d_ecScale = Dec(110, 2)
  /\ s_stockVolumeL = Dec(100, 0)
  /\ s_ratio = Dec(200, 0)
  /\ s_weightUnit = "g"
  /\ s_ecScale = Dec(110, 2)
  /\ Alt_Init
  /\ d_ferts = (IF screen = "direct" THEN FertTable ELSE <<>>)
  /\ s_ferts = (IF screen = "stock" THEN FertTable ELSE <<>>)
  /\ d_ingredients = (IF screen = "direct"
                      THEN <<[Texts_Row EXCEPT !.gTotal = Dec(500, 0), !.gPerL = Dec(5, 0)]>>
                      ELSE <<>>)
  /\ s_rows = (IF screen = "stock"
               THEN <<[Texts_StockRow EXCEPT !.gramsTotal = Dec(2000, 0)]>>
               ELSE <<>>)
  /\ Legacy_Init
  /\ Job_Init
  /\ db_recipes = <<>>
  /\ route_loadRecipeId = NullId
  /\ saves = <<>>
  /\ loads = <<>>
  /\ fetches = <<>>
  /\ seeds = <<>>
  /\ db_fertilizers = <<>>
  /\ imports = <<>>

\* the masses explored: a recipe is saved while no row holds more than MaxGrams
MaxGrams == 500000

Load_withinMaxGrams ==
  \A i \in 1..Len(d_ingredients) :
    ~Gt(Direct_gramsTotal(d_ingredients[i], d_doseMode, d_vol, d_unitFactor), <<MaxGrams, 1>>)

Load_Next ==
  \/ Direct_setDoseMode
  \/ Direct_setWeightUnit
  \/ (Load_withinMaxGrams /\ Direct_saveRecipe)
  \/ Stock_saveRecipe
  \/ saveRecipe_getUser
  \/ saveRecipe_insert
  \/ Mount
  \/ Direct_loadFerts
  \/ Alt_loadFerts
  \/ Alt_switchUnit
  \/ SavedRecipes_open
  \/ Direct_useFocusEffect
  \/ Direct_loadRecipeById_data
  \/ Direct_loadRecipeById_error
  \/ Alt_useFocusEffect
  \/ Alt_loadRecipeById_data
  \/ Alt_loadRecipeById_error

SpecLoad == Load_Init /\ [][Load_Next]_vars

(***************************************************************************)
(* C22.  Every item of a saved recipe stores its mass in grams, whatever   *)
(* the weight unit shown and the dose mode: grams is the total mass added  *)
(* (entered amount x unit factor in total mode and in the stock screen,    *)
(* entered amount x unit factor x volume in per-liter mode), the quantity  *)
(* the saved cost is computed from; the rows with no resolved fertilizer   *)
(* are left out of items.  Stated on every press of Save, for the request  *)
(* body the press builds; the stock screen computes a cost only with a     *)
(* positive stock volume (C12).                                            *)
(***************************************************************************)
C22_Items(rows, ferts, mass(_)) ==
  LET resolved == SelectSeq(rows, LAMBDA r : Resolves(ferts, r.fertId))
  IN  [i \in 1..Len(resolved) |->
         [fert_id |-> resolved[i].fertId,
          name |-> FertFor(ferts, resolved[i].fertId).name,
          grams |-> mass(resolved[i])]]

C22_Priced(items, ferts) ==
  {i \in 1..Len(items) :
     /\ Gt(DeclaredAmount(FertFor(ferts, items[i].fert_id).price_per_bag), Zero)
     /\ Gt(DeclaredAmount(FertFor(ferts, items[i].fert_id).bag_size_kg), Zero)}

C22_CostOfItems(items, ferts) ==
  SumFn([i \in C22_Priced(items, ferts) |->
           Mul(items[i].grams,
               Div(DeclaredAmount(FertFor(ferts, items[i].fert_id).price_per_bag),
                   Mul(DeclaredAmount(FertFor(ferts, items[i].fert_id).bag_size_kg),
                       <<1000, 1>>)))],
        C22_Priced(items, ferts))

C22_Pressed(body) ==
  /\ screen = "direct" =>
       /\ body.items = C22_Items(d_ingredients, d_ferts,
                                 LAMBDA r : TotalGramsAdded(r, d_doseMode, d_weightUnit, d_vol))
       /\ body.cost_rm = C22_CostOfItems(body.items, d_ferts)
  /\ screen = "stock" =>
       /\ body.items = C22_Items(s_rows, s_ferts,
                                 LAMBDA r : EnteredGrams(r.gramsTotal, s_weightUnit))
       /\ Gt(s_volStock, Zero) => body.cost_rm = C22_CostOfItems(body.items, s_ferts)
  /\ screen = "alt" =>
       /\ body.items = C22_Items(a_rows, a_ferts,
                                 LAMBDA r : TotalGramsAdded(r, a_doseMode, a_weightUnit, a_vol))
       /\ body.cost_rm = C22_CostOfItems(body.items, a_ferts)

C23_Rows(items) ==
  [i \in 1..Len(items) |->
     [fertId |-> items[i].fert_id, name |-> items[i].name,
      gTotal |-> StringOfNumber(items[i].grams), gPerL |-> TxtEmpty]]

C23_StockRows(items) ==
  [i \in 1..Len(items) |->
     [fertId |-> items[i].fert_id, name |-> items[i].name,
      gramsTotal |-> StringOfNumber(items[i].grams)]]

C23_Engine(rec) ==
  IF rec.dose_mode = "stock"
  THEN Stock_results(C23_StockRows(rec.items), FertTable, "g", rec.volume_l,
                     Stock_injRatio(rec.notes.ratio))
  ELSE Direct_results(C23_Rows(rec.items), FertTable, "total", rec.volume_l, One)

C23_Consistent(rec) ==
  /\ rec.ppm = C23_Engine(rec).ppm
  /\ rec.cost_rm = C23_Engine(rec).costRM

C23_RecordIsConsistent ==
  /\ \A i \in 1..Len(db_recipes) : C23_Consistent(db_recipes[i])
  /\ \A i \in 1..Len(saves) : C23_Consistent(Stored(saves[i].body, user))

\* the same for the records of MixDirectScreen.js and MixStockScreen.js alone
C23_DirectAndStockRecords == screen \in {"direct", "stock"} => C23_RecordIsConsistent

(***************************************************************************)
(* C24.  Save then load is a round trip for direct recipes: when           *)
(* loadRecipeById brings a recipe saved from a direct screen with volume   *)
(* > 0 into the screen, the dose mode and the volume are the saved ones    *)
(* and every row holds the mass in grams of its item, whichever weight     *)
(* unit is active; with the fertilizer list loaded, the recomputed ppm and *)
(* cost are the saved ppm and cost_rm.                                     *)
(***************************************************************************)
\* call i of loadRecipeById settles in this step
C24_Settles(i) == ~loads[i].settled /\ loads' = Settle(loads, i)

C24_DirectRecipe(data) ==
  /\ data.dose_mode \in {"total", "perL"}
  /\ Gt(data.volume_l, Zero)

C24_DirectRestored(data) ==
  /\ d_doseMode' = data.dose_mode
  /\ Direct_vol(d_volumeL') = data.volume_l
  /\ Len(d_ingredients') = Len(data.items)
  /\ \A k \in 1..Len(data.items) :
       TotalGramsAdded(d_ingredients'[k], d_doseMode', d_weightUnit', Direct_vol(d_volumeL'))
         = data.items[k].grams
  /\ d_ferts' = FertTable =>
       LET r == Direct_results(d_ingredients', d_ferts', d_doseMode', Direct_vol(d_volumeL'),
                               Direct_unitFactor(d_weightUnit'))
       IN  r.ppm = data.ppm /\ r.costRM = data.cost_rm

C24_AltRestored(data) ==
  /\ a_doseMode' = data.dose_mode
  /\ MathMax(Zero, num(a_volumeL')) = data.volume_l
  /\ Len(a_rows') = Len(data.items)
  /\ \A k \in 1..Len(data.items) :
       TotalGramsAdded(a_rows'[k], a_doseMode', a_weightUnit', MathMax(Zero, num(a_volumeL')))
         = data.items[k].grams
  /\ a_ferts' = FertTable =>
       LET r == Alt_results(a_rows', a_ferts', a_doseMode', MathMax(Zero, num(a_volumeL')),
                            a_weightUnit')
       IN  r.ppm = data.ppm /\ r.costRM = data.cost_rm

C24_SaveLoadRoundTrip ==
  [][\A i \in 1..Len(loads) :
       (C24_Settles(i) /\ C24_DirectRecipe(db_recipes[loads[i].id])) =>
          /\ (screen = "direct" /\ <<d_job, d_volumeL, d_doseMode, d_ingredients>>'
                                     # <<d_job, d_volumeL, d_doseMode, d_ingredients>>)
               => C24_DirectRestored(db_recipes[loads[i].id])
          /\ (screen = "alt" /\ <<a_job, a_volumeL, a_doseMode, a_rows>>'
                                  # <<a_job, a_volumeL, a_doseMode, a_rows>>)
               => C24_AltRestored(db_recipes[loads[i].id])]_vars

\* the same for the calls of loadRecipeById during which the weight unit is not changed
C24_RoundTripAtOneUnit ==
  [][\A i \in 1..Len(loads) :
       (C24_Settles(i) /\ C24_DirectRecipe(db_recipes[loads[i].id])) =>
          /\ (screen = "direct" /\ loads[i].weightUnit = d_weightUnit
                /\ <<d_job, d_volumeL, d_doseMode, d_ingredients>>'
                     # <<d_job, d_volumeL, d_doseMode, d_ingredients>>)
               => C24_DirectRestored(db_recipes[loads[i].id])
          /\ (screen = "alt" /\ loads[i].weightUnit = a_weightUnit
                /\ <<a_job, a_volumeL, a_doseMode, a_rows>>'
                     # <<a_job, a_volumeL, a_doseMode, a_rows>>)
               => C24_AltRestored(db_recipes[loads[i].id])]_vars

(***************************************************************************)
(* C25.  The doseMode of the direct-mix screen is always 'total' or        *)
(* 'perL', after any mode toggles and any loads, through the saved-recipes *)
(* Use action, of recipes saved from the direct or from the stock screen.  *)
(***************************************************************************)
C25_DoseModeIsTotalOrPerL == d_doseMode \in {"total", "perL"}

(***************************************************************************)
(* C26.  When loadRecipeById is started for recipe A and then for recipe B *)
(* before A's response arrives, then, once both have completed, the batch  *)
(* id, notes, volume, dose mode and rows of the screen all come from B,    *)
(* in whatever order the responses arrive; and the loaded fields never mix *)
(* values of two recipes.  Stated on every step in which a response        *)
(* changes the screen: the fields are those of one record, and when it is  *)
(* the last response they are those of the latest call that got its data.  *)
(***************************************************************************)
\* the screen after the step shows record data, loaded at either weight unit
C26_DirectShows(data) ==
  /\ d_batchId' = LoadedBatchId(data)
  /\ d_notes' = data.notes
  /\ d_volumeL' = LoadedVolumeL(data)
  /\ d_doseMode' = data.dose_mode
  /\ \E u \in {"g", "kg"} : d_ingredients' = Direct_loadedRows(data, Direct_unitFactor(u))

C26_AltShows(data) ==
  /\ a_batchId' = LoadedBatchId(data)
  /\ a_notes' = data.notes
  /\ a_volumeL' = LoadedVolumeL(data)
  /\ a_doseMode' = data.dose_mode
  /\ \E u \in {"g", "kg"} : a_rows' = Alt_loadedRows(data, u)

\* the response of call i arrives with data and changes the screen
C26_Arrives(i) ==
  /\ ~loads[i].settled
  /\ loads' = Settle(loads, i)
  /\ \/ screen = "direct" /\ <<d_job, d_volumeL, d_doseMode, d_ingredients>>'
                               # <<d_job, d_volumeL, d_doseMode, d_ingredients>>
     \/ screen = "alt" /\ <<a_job, a_volumeL, a_doseMode, a_rows>>'
                            # <<a_job, a_volumeL, a_doseMode, a_rows>>

C26_Shows(data) == IF screen = "direct" THEN C26_DirectShows(data) ELSE C26_AltShows(data)

\* the latest started call among call i and the calls that already have their data
C26_Latest(i) ==
  CHOOSE j \in 1..Len(loads) :
    /\ j = i \/ loads[j].settled
    /\ \A k \in 1..Len(loads) : (k = i \/ loads[k].settled) => k <= j

C26_LaterRequestWins ==
  [][\A i \in 1..Len(loads) :
       C26_Arrives(i) =>
         /\ \E id \in 1..Len(db_recipes) : C26_Shows(db_recipes[id])
         /\ loads' = <<>> => C26_Shows(db_recipes[loads[C26_Latest(i)].id])]_vars

\* the part that holds: the fields a response writes are those of one record
C26_FieldsOfOneRecord ==
  [][\A i \in 1..Len(loads) :
       C26_Arrives(i) => \E id \in 1..Len(db_recipes) : C26_Shows(db_recipes[id])]_vars

(***************************************************************************)
(* C27.  Each navigation to the Mix screen that carries loadRecipeId = id  *)
(* starts loadRecipeById(id) exactly once: a call is started only in a     *)
(* step that finds the parameter set, it is a call for that id, and the    *)
(* same step clears the parameter, so a later focus event or a re-created  *)
(* callback (after a weight-unit change) starts no other load; the         *)
(* parameter is cleared in no other way; and with no loadRecipeId          *)
(* parameter no load is started.                                           *)
(***************************************************************************)
C27_StartedOncePerNavigation ==
  [][/\ Len(loads') > Len(loads) =>
          /\ route_loadRecipeId # NullId
          /\ Len(loads') = Len(loads) + 1
          /\ \A j \in 1..Len(loads) : loads'[j] = loads[j]
          /\ loads'[Len(loads')].id = route_loadRecipeId
          /\ ~loads'[Len(loads')].settled
          /\ route_loadRecipeId' = NullId
     /\ (route_loadRecipeId # NullId /\ route_loadRecipeId' # route_loadRecipeId) =>
          /\ route_loadRecipeId' = NullId
          /\ Len(loads') = Len(loads) + 1]_vars

\* the second saved recipe is being loaded for a navigation whose parameter is
\* cleared, in a screen whose weight unit was changed after the call was started
C27_Witness ==
  /\ screen = "direct"
  /\ route_loadRecipeId = NullId
  /\ Len(loads) = 1
  /\ loads[1].id = 2
  /\ ~loads[1].settled
  /\ loads[1].weightUnit = "g"
  /\ d_weightUnit = "kg"

(***************************************************************************)
(* loadFerts: a mixer just mounted with its first call in flight, or a     *)
(* mixer with the list loaded and one row typed, where the effect runs     *)
(* loadFerts again (a development reload keeps the state); the select      *)
(* answers every call, and the function resumes after its await.           *)
(***************************************************************************)
Fetch_Init ==
  /\ screen \in {"direct", "stock", "alt"}
  /\ \E loaded \in BOOLEAN :
       /\ d_ferts = (IF loaded /\ screen = "direct" THEN FertTable ELSE <<>>)
       /\ s_ferts = (IF loaded /\ screen = "stock" THEN FertTable ELSE <<>>)
       /\ a_ferts = (IF loaded /\ screen = "alt" THEN FertTable ELSE <<>>)
       /\ d_ingredients = (IF loaded /\ screen = "direct"
                           THEN <<[Texts_Row EXCEPT !.gTotal = Dec(500, 0)]>> ELSE <<>>)
       /\ s_rows = (IF loaded /\ screen = "stock"
                    THEN <<[Texts_StockRow EXCEPT !.gramsTotal = Dec(2000, 0)]>> ELSE <<>>)
       /\ a_rows = (IF loaded /\ screen = "alt"
                    THEN <<[Texts_Row EXCEPT !.gTotal = Dec(500, 0)]>> ELSE <<>>)
       /\ d_loading = ~(loaded /\ screen = "direct")
       /\ s_loading = ~(loaded /\ screen = "stock")
       /\ a_loading = ~(loaded /\ screen = "alt")
       /\ fetches = (IF loaded THEN <<>>
                     ELSE <<[stage |-> "select", result |-> [error |-> FALSE, data |-> <<>>]]>>)
  /\ d_weightUnit = "g"
  /\ d_volumeL = Dec(100, 0)
  /\ d_doseMode = "total"
  /\ d_ecScale = Dec(110, 2)
  /\ s_stockVolumeL = Dec(100, 0)
  /\ s_ratio = Dec(200, 0)
  /\ s_weightUnit = "g"
  /\ s_ecScale = Dec(110, 2)
  /\ a_volumeL = Dec(100, 0)
  /\ a_doseMode = "total"
  /\ a_weightUnit = "g"
  /\ a_ecScale = Dec(110, 2)
  /\ Legacy_Init
  /\ d_batchId = NowBatchId /\ d_notes = EmptyNotes
  /\ s_batchId = NowBatchId /\ s_notes = EmptyNotes
  /\ a_batchId = NowBatchId /\ a_notes = EmptyNotes
  /\ user = "u1"
  /\ db_recipes = <<>>
  /\ route_loadRecipeId = NullId
  /\ saves = <<>>
  /\ loads = <<>>
  /\ seeds = <<>>
  /\ db_fertilizers = <<>>
  /\ imports = <<>>

Fetch_Next ==
  \/ loadFerts_call
  \/ loadFerts_answer
  \/ loadFerts_settle
  \/ Direct_setVolumeL
  \/ Stock_setRatio
  \/ Alt_setDoseMode

\* the select is answered and the function resumes: a promise that settles
SpecFetch ==
  /\ Fetch_Init
  /\ [][Fetch_Next]_vars
  /\ WF_vars(loadFerts_answer)
  /\ WF_vars(loadFerts_settle)

(***************************************************************************)
(* C28.  Every call of loadFerts eventually sets loading back to false,    *)
(* whether the fetch succeeds or fails; on failure the list loaded before  *)
(* is left unchanged, so results keep being computed from it, and on       *)
(* success it is replaced by the fetched list, or by the empty list when   *)
(* the fetch returns no data.                                              *)
(***************************************************************************)
C28_loading(c, d, s, a) == IF c = "direct" THEN d ELSE IF c = "stock" THEN s ELSE a

C28_ferts(c, d, s, a) == IF c = "direct" THEN d ELSE IF c = "stock" THEN s ELSE a

\* call i of loadFerts runs to its end in this step
C28_Ends(i) == fetches[i].stage = "answered" /\ fetches' = Without(fetches, i)

C28_LoadFertsResetsLoading ==
  /\ [][\A i \in 1..Len(fetches) :
          C28_Ends(i) =>
            /\ C28_loading(screen', d_loading', s_loading', a_loading') = FALSE
            /\ fetches[i].result.error =>
                 /\ C28_ferts(screen', d_ferts', s_ferts', a_ferts')
                      = C28_ferts(screen, d_ferts, s_ferts, a_ferts)
                 /\ Direct_results(d_ingredients', d_ferts', d_doseMode', Direct_vol(d_volumeL'),
                                   Direct_unitFactor(d_weightUnit')) = d_results
                 /\ Stock_results(s_rows', s_ferts', s_weightUnit',
                                  Stock_volStock(s_stockVolumeL'), Stock_injRatio(s_ratio'))
                      = s_results
            /\ (~fetches[i].result.error /\ fetches[i].result.data # <<>>) =>
                 C28_ferts(screen', d_ferts', s_ferts', a_ferts') = fetches[i].result.data[1]
            /\ (~fetches[i].result.error /\ fetches[i].result.data = <<>>) =>
                 C28_ferts(screen', d_ferts', s_ferts', a_ferts') = <<>>]_vars
  /\ C28_loading(screen, d_loading, s_loading, a_loading)
       ~> ~C28_loading(screen, d_loading, s_loading, a_loading)

\* a second call has failed and is about to resume, while the list is the one the
\* first call fetched and loading is already false
C28_Witness ==
  /\ screen = "direct"
  /\ d_ferts = <<Fert_CalciumNitrate>>
  /\ ~d_loading
  /\ Len(fetches) = 1
  /\ fetches[1].stage = "answered"
  /\ fetches[1].result.error

(***************************************************************************)
(* bulkImportFromJson (FertilizerListScreen.js 104-167), one step per      *)
(* await.  The seed file fertilizers.full.json is a list of records with   *)
(* a name; the table is read as its names.                                 *)
(***************************************************************************)
MaxImports == 2

Name_Urea == <<"U", "r", "e", "a">>

Name_urea_spaced == <<" ", "u", "r", "e", "a", " ">>

Name_MAP == <<"M", "A", "P">>

Name_Blank == <<" ">>

\* seed lists whose names, trimmed and in lower case, are pairwise distinct or blank
SeedLists ==
  {<<[name |-> Name_Urea], [name |-> Name_Blank], [name |-> Name_MAP]>>,
   <<[name |-> Name_urea_spaced], [name |-> EmptyName]>>}

RECURSIVE TrimStart(_)
TrimStart(s) == IF s # <<>> /\ Head(s) = " " THEN TrimStart(Tail(s)) ELSE s

RECURSIVE TrimEnd(_)
TrimEnd(s) == IF s # <<>> /\ s[Len(s)] = " " THEN TrimEnd(SubSeq(s, 1, Len(s) - 1)) ELSE s

\* String.prototype.trim
Trim(s) == TrimEnd(TrimStart(s))

\* existingNames = new Set((existing ?? []).map((x) => x.name?.trim()?.toLowerCase()))
existingNames(existing) == {ToLowerCase(Trim(existing[i].name)) : i \in 1..Len(existing)}

RECURSIVE bulkImport_rows_addingAll(_, _, _, _)
\* the loop without the test of existingNames
bulkImport_rows_addingAll(rows, i, existing, owner) ==
  IF i > Len(seeds) THEN rows
  ELSE LET nm == Trim(seeds[i].name)
       IN  bulkImport_rows_addingAll(
             IF nm = <<>> THEN rows ELSE Append(rows, [owner |-> owner, name |-> nm]),
             i + 1, existing, owner)

RECURSIVE bulkImport_rows(_, _, _, _)
\* for (const f of seeds) { nm = (f.name ?? "").trim(); if (!nm) continue;
\* if (existingNames.has(nm.toLowerCase())) continue; rows.push({ owner, name: nm, ... }) }
bulkImport_rows(rows, i, existing, owner) ==
  IF i > Len(seeds) THEN rows
  ELSE LET nm == Trim(seeds[i].name)
       IN  bulkImport_rows(
             IF nm = <<>> \/ ToLowerCase(nm) \in existing
             THEN rows ELSE Append(rows, [owner |-> owner, name |-> nm]),
             i + 1, existing, owner)

\* the Import button pressed: bulkImportFromJson up to its first await
bulkImportFromJson ==
  /\ Len(imports) < MaxImports
  /\ imports' = Append(imports, [stage |-> "getUser", owner |-> NoUser, rows |-> <<>>])
  /\ UNCHANGED <<screen, dvars, svars, avars, lvars, d_job, d_loading, s_job, s_loading,
                 a_job, a_loading, rvars, seeds, db_fertilizers>>

\* getUser answers: without a user Alert "Not signed in" and return, else the select
\* of the names is sent
bulkImport_getUser ==
  /\ \E i \in 1..Len(imports) :
       /\ imports[i].stage = "getUser"
       /\ imports' = IF user = NoUser THEN Without(imports, i)
                     ELSE [imports EXCEPT ![i].stage = "select", ![i].owner = user]
  /\ UNCHANGED <<screen, dvars, svars, avars, lvars, d_job, d_loading, s_job, s_loading,
                 a_job, a_loading, rvars, seeds, db_fertilizers>>

\* the select of the names answers: the rows are built; with no row Alert "Nothing to
\* import" and return, else the insert is sent
bulkImport_select ==
  /\ \E i \in 1..Len(imports) :
       /\ imports[i].stage = "select"
       /\ LET rows == bulkImport_rows(<<>>, 1, existingNames(db_fertilizers), imports[i].owner)
          IN  imports' = IF rows = <<>> THEN Without(imports, i)
                         ELSE [imports EXCEPT ![i].stage = "insert", ![i].rows = rows]
  /\ UNCHANGED <<screen, dvars, svars, avars, lvars, d_job, d_loading, s_job, s_loading,
                 a_job, a_loading, rvars, seeds, db_fertilizers>>

\* the insert answers without error: the table holds the rows
bulkImport_insert ==
  /\ \E i \in 1..Len(imports) :
       /\ imports[i].stage = "insert"
       /\ db_fertilizers' = db_fertilizers \o imports[i].rows
       /\ imports' = Without(imports, i)
  /\ UNCHANGED <<screen, dvars, svars, avars, lvars, d_job, d_loading, s_job, s_loading,
                 a_job, a_loading, rvars, seeds>>

\* the select or the insert answers with an error: Alert "Import error"
bulkImport_error ==
  /\ \E i \in 1..Len(imports) :
       /\ imports[i].stage \in {"select", "insert"}
       /\ imports' = Without(imports, i)
  /\ UNCHANGED <<screen, dvars, svars, avars, lvars, d_job, d_loading, s_job, s_loading,
                 a_job, a_loading, rvars, seeds, db_fertilizers>>

\* supabase.auth: the user signs in or out
Auth_change ==
  /\ \E u \in {"u1", NoUser} : user' = u
  /\ UNCHANGED <<screen, dvars, svars, avars, lvars, d_job, d_loading, s_job, s_loading,
                 a_job, a_loading, ivars, db_recipes, route_loadRecipeId, saves, loads, fetches>>

\* the fertilizer list screen over a table that is empty or holds "urea", with one
\* of the seed lists
Import_Init ==
  /\ screen = "direct"
  /\ Direct_Init /\ Stock_Init /\ Alt_Init /\ Legacy_Init /\ Job_Init
  /\ user \in {"u1", NoUser}
  /\ db_recipes = <<>>
  /\ route_loadRecipeId = NullId
  /\ saves = <<>>
  /\ loads = <<>>
  /\ fetches = <<>>
  /\ seeds \in SeedLists
  /\ db_fertilizers \in {<<>>, <<[owner |-> "u2", name |-> ToLowerCase(Name_Urea)]>>}
  /\ imports = <<>>

Import_Next ==
  \/ bulkImportFromJson
  \/ bulkImport_getUser
  \/ bulkImport_select
  \/ bulkImport_insert
  \/ bulkImport_error
  \/ Auth_change

SpecImport == Import_Init /\ [][Import_Next]_vars

(***************************************************************************)
(* C30.  bulkImportFromJson avoids duplicates: from a table whose names    *)
(* are pairwise distinct (trimmed, letter case ignored), after any number  *)
(* of successful imports the names are still pairwise distinct, and no     *)
(* blank name is in the table.                                             *)
(***************************************************************************)
C30_Key(name) == ToLowerCase(Trim(name))

C30_PairwiseDistinct(table) ==
  \A i, j \in 1..Len(table) : i # j => C30_Key(table[i].name) # C30_Key(table[j].name)

C30_ImportAvoidsDuplicates ==
  /\ C30_PairwiseDistinct(db_fertilizers)
  /\ \A i \in 1..Len(db_fertilizers) : C30_Key(db_fertilizers[i].name) # <<>>

\* the parts of the claim that hold.  The rows an import builds from the table it
\* has read are pairwise distinct, not blank and new to that table, and an import that
\* reads a table holding every seed name sends no insert (a second import run after
\* a successful one inserts nothing); every inserted row has a name that is not blank
\* and the owner who was signed in (a signed-out user's import inserts nothing)
C30_SeedKeys == {C30_Key(seeds[k].name) : k \in 1..Len(seeds)} \ {<<>>}

C30_OneImportAlone ==
  /\ [][\A i \in 1..Len(imports) :
          (imports[i].stage = "select" /\ Len(imports') = Len(imports)
             /\ imports'[i].stage = "insert") =>
            /\ C30_PairwiseDistinct(db_fertilizers \o imports'[i].rows)
            /\ \A k \in 1..Len(imports'[i].rows) : C30_Key(imports'[i].rows[k].name) # <<>>
            /\ ~(C30_SeedKeys \subseteq existingNames(db_fertilizers))]_vars
  /\ [][db_fertilizers' # db_fertilizers =>
          /\ Len(db_fertilizers') > Len(db_fertilizers)
          /\ \A k \in (Len(db_fertilizers) + 1)..Len(db_fertilizers') :
               /\ C30_Key(db_fertilizers'[k].name) # <<>>
               /\ db_fertilizers'[k].owner # NoUser]_vars

(***************************************************************************)
(* The EC scale: a direct or stock mixer with the list loaded and one row  *)
(* typed, and an EC-scale field that holds any kind of text.               *)
(***************************************************************************)
\* "", "abc", "0", "0.0", "-5", "1.10", "2", "Infinity"
ScaleTexts ==
  {TxtEmpty, TxtJunk, Dec(0, 0), Dec(0, 1), Dec(-5, 0), Dec(110, 2), Dec(2, 0), TxtInfinity}

Scale_Init ==
  /\ screen \in {"direct", "stock"}
  /\ d_weightUnit = "g"
  /\ d_volumeL = Dec(100, 0)
  /\ d_doseMode = "total"
  /\ d_ecScale \in (IF screen = "direct" THEN ScaleTexts ELSE {Dec(110, 2)})
  /\ s_stockVolumeL = Dec(100, 0)
  /\ s_ratio = Dec(200, 0)
  /\ s_weightUnit = "g"
  /\ s_ecScale \in (IF screen = "stock" THEN ScaleTexts ELSE {Dec(110, 2)})
  /\ Alt_Init
  /\ d_ferts = (IF screen = "direct" THEN FertTable ELSE <<>>)
  /\ s_ferts = (IF screen = "stock" THEN FertTable ELSE <<>>)
  /\ d_ingredients = (IF screen = "direct"
                      THEN <<[Texts_Row EXCEPT !.gTotal = Dec(500, 0), !.gPerL = Dec(5, 0)]>>
                      ELSE <<>>)
  /\ s_rows = (IF screen = "stock"
               THEN <<[Texts_StockRow EXCEPT !.gramsTotal = Dec(2000, 0)]>>
               ELSE <<>>)
  /\ Legacy_Init
  /\ Job_Init
  /\ Backend_Init

Scale_Next ==
  \/ Direct_setVolumeL
  \/ Direct_setDoseMode
  \/ Direct_setWeightUnit
  \/ Direct_setEcScale
  \/ Stock_setStockVolumeL
  \/ Stock_setRatio
  \/ Stock_switchUnit
  \/ Stock_setEcScale

SpecScale == Scale_Init /\ [][Scale_Next]_vars

(***************************************************************************)
(* C29.  An EC-scale input that is empty, non-numeric or zero is replaced  *)
(* by the multiplier 1 (not 0) in the EC estimate, in the direct and in    *)
(* the stock screen; any other finite numeric input is used as typed: the  *)
(* estimate is the estimate at scale "1" times that multiplier.            *)
(***************************************************************************)
\* the text is empty, non-numeric, or a finite numeral: the inputs the claim speaks of
C29_Spoken(text) == text.k \in {"empty", "junk", "dec"}

C29_Multiplier(text) ==
  IF text.k \in {"empty", "junk"} \/ text.m = 0 THEN <<1, 1>>
  ELSE Norm(text.m, Pow10(text.e))

C29_EcScaleFallsBackToOne ==
  /\ (screen = "direct" /\ C29_Spoken(d_ecScale)) =>
       d_ecEstimate = Mul(Direct_ecEstimate(d_ingredients, d_ferts, d_doseMode, d_vol,
                                            Dec(1, 0), d_unitFactor),
                          C29_Multiplier(d_ecScale))
  /\ (screen = "stock" /\ C29_Spoken(s_ecScale)) =>
       s_ecEstimate = Mul(Stock_ecEstimate(s_rows, s_ferts, s_weightUnit, s_volStock,
                                           s_injRatio, Dec(1, 0)),
                          C29_Multiplier(s_ecScale))

\* the direct screen in per-liter mode and kg, with the scale "0" and an estimate
\* that is not 0
C29_Witness ==
  /\ screen = "direct"
  /\ d_ecScale = Dec(0, 0)
  /\ d_doseMode = "perL"
  /\ d_weightUnit = "kg"
  /\ Gt(d_ecEstimate, Zero)
  /\ d_ecEstimate = Direct_ecEstimate(d_ingredients, d_ferts, d_doseMode, d_vol,
                                      Dec(1, 0), d_unitFactor)

====
